---- MODULE Spec2Model ----
(***************************************************************************)
(* A model of the long-scroll render pipeline: the three-phase Scheduler   *)
(* (src/lib/Scheduler.ts) and the LongScroll coordinator with its BlockSet *)
(* and Blocks (src/lib/LongScroll.ts).                                     *)
(*                                                                         *)
(* The JavaScript event loop is modelled explicitly.  A macrotask (a frame *)
(* tick, a scroll event, a host call, the throttle timer) runs only when   *)
(* the microtask queue is empty; every promise reaction is one entry of    *)
(* `microtasks`, run in FIFO order by RunMicrotask.  Awaits follow the     *)
(* native ES2017 timing: settling a task's promise queues the awaiting     *)
(* continuation one microtask later.                                       *)
(***************************************************************************)
EXTENDS Integers, Sequences, FiniteSets, TLC

\* ---------------------------------------------------------------- bounds
SmallLength == 30        \* a short data source: a handful of blocks
LargeLength == 210       \* a long data source: the 10-iteration cap is reachable
MaxPendingScroll == 2    \* updateViewport reads a host may queue between two frames

\* ------------------------------------------------------ program constants
initialBlockSize == 19
preferredBlockTime == 12
minBlockSize == 5
maxCoverIterations == 10
maxLastTimes == 5
defaultRowHeight == 30

\* ----------------------------------------------------------------- Range
\* class Range: a half-open [top, bot)
Range(t, b) == [top |-> t, bot |-> b]

Height(r) == r.bot - r.top

\* A plausible slip of Range.contains(i): the bottom end is taken in
ContainsNum_closedBot(r, i) == i >= r.top /\ i <= r.bot

\* Range.contains(i: number)
ContainsNum(r, i) == i >= r.top /\ i < r.bot

\* A plausible slip of Range.contains(r: Range): tests the top end only
ContainsRange_topOnly(r, a) ==
    IF Height(a) = 0 THEN TRUE ELSE ContainsNum(r, a.top)

\* Range.contains(r: Range)
ContainsRange(r, a) ==
    IF Height(a) = 0 THEN TRUE
    ELSE ContainsNum(r, a.top) /\ ContainsNum(r, a.bot - 1)

\* A plausible slip of Range.clampTo: a clamped range that ends before it
\* starts is not collapsed
ClampTo_notCollapsed(r, other) ==
    LET t1 == IF other.top > r.top THEN other.top ELSE r.top
        b1 == IF other.bot < r.bot THEN other.bot ELSE r.bot
    IN  Range(t1, b1)

\* Range.clampTo(other)
ClampTo(r, other) ==
    LET t1 == IF other.top > r.top THEN other.top ELSE r.top
        b1 == IF other.bot < r.bot THEN other.bot ELSE r.bot
    IN  IF t1 > b1 THEN Range(b1, b1) ELSE Range(t1, b1)

\* Range.clampNum(i)
ClampNum(r, i) ==
    IF i < r.top THEN r.top
    ELSE IF i > r.bot THEN r.bot - 1
    ELSE i

\* Math.round(n / 3) for an integer n (JavaScript rounds halves up; a third
\* is never a half)
RoundThirds(n) == (2 * n + 3) \div 6

\* Range.forEach: the rows it visits
Rows(r) == r.top..(r.bot - 1)

\* No call has been made on a Range by itself
NoCall == [op |-> "none"]

\* ------------------------------------------------------- row height index
\* BinaryIndexedTree, as LongScroll uses it: a height for each row index.
\* fillFromValues(_.times(length, () => 30)) as reInit calls it
FillFromValues(N) == [i \in 0..(N - 1) |-> defaultRowHeight]

GetValue(rh, i) == rh[i]

SetValue(rh, i, v) == [rh EXCEPT ![i] = v]

\* The heights of rows lo..(hi - 1) added up, by halves as the tree does
RECURSIVE SumOfRows(_, _, _)
SumOfRows(rh, lo, hi) ==
    IF hi <= lo THEN 0
    ELSE IF hi = lo + 1 THEN rh[lo]
    ELSE LET mid == (lo + hi) \div 2
         IN  SumOfRows(rh, lo, mid) + SumOfRows(rh, mid, hi)

\* getSumTo(index): the heights of the rows before index
GetSumTo(rh, index) == SumOfRows(rh, 0, index)

GetTotal(rh) == GetSumTo(rh, Cardinality(DOMAIN rh))

\* getIndex(px), for px >= 0: the largest index whose rows before it add up
\* to px or less; the number of rows when px is at or past the total
GetIndex(rh, px) ==
    LET N == Cardinality(DOMAIN rh)
    IN  CHOOSE i \in 0..N :
            /\ GetSumTo(rh, i) <= px
            /\ \A j \in (i + 1)..N : GetSumTo(rh, j) > px

\* ------------------------------------------------------------- call log
\* One call a handler makes on an element of the document, on the data
\* source or on the scheduler: op names it, ph is the doBatched phase it is
\* made in ("none" outside doBatched), id the Block concerned (-1: none)
Call(op, ph, id) == [op |-> op, ph |-> ph, id |-> id, row |-> -1, size |-> 0]

\* rowHeights.setValue(row, size)
SetValueCall(ph, row, size) ==
    [op |-> "setValue", ph |-> ph, id |-> -1, row |-> row, size |-> size]

\* LongScroll.getRowTop(index): rowHeights.getSumTo(index).  Past the tree's
\* size the sum is no row's top; -1 stands for it
GetRowTop(rh, index) ==
    IF index \in 0..Cardinality(DOMAIN rh) THEN GetSumTo(rh, index) ELSE -1

\* Block.updatePos() of block b under the heights rh: the Y translate of its
\* blockDiv is set to getRowTop(range.top); row is range.top, size the px set
UpdatePosCall(ph, b, rh) ==
    [op |-> "updatePos", ph |-> ph, id |-> b.id, row |-> b.range.top,
     size |-> GetRowTop(rh, b.range.top)]

Log(w, calls) == [w EXCEPT !.calls = @ \o calls]

\* ---------------------------------------------------------------- owners
\* The `owner` object of a task: the LongScroll, its BlockSet, or a Block
LongScrollOwner == [kind |-> "longscroll", id |-> 0]
BlockSetOwner == [kind |-> "blockset", id |-> 0]
BlockOwner(id) == [kind |-> "block", id |-> id]

\* ----------------------------------------------------------------- tasks
\* class Task, together with the continuation that awaits its promise:
\*   cont    which await / then() is suspended on the promise
\*   targR   ensureCovers' captured `const targR`
\*   isDummy render's captured `const isDummyRender`
\*   stamp   (history) the task's rank among the tasks enqueued on its queue
\*           since the queue was last emptied
\*   born    (history) the doBatched phase during which it was scheduled
NoRange == Range(0, 0)

Task(owner, cont, targR, isDummy, stamp, born) ==
    [owner |-> owner, state |-> "Pending", cont |-> cont, targR |-> targR,
     isDummy |-> isDummy, stamp |-> stamp, born |-> born]

\* Continuations that handle a rejection themselves: render's try/catch and
\* the .catch(showPromiseError) chains
CatchesCancel(cont) ==
    cont \in {"blockAppend", "renderWrite", "renderRead", "resizeDummy",
              "paneResize", "ensureCovers"}

\* SchedulerQueue.addTask
AddTask(queue, t) == Append(queue, t)

\* ------------------------------------------------------------ microtasks
\* One promise reaction job.  kind:
\*   "settle"     the continuation of a task's promise (ok: fulfilled or rejected)
\*   "execDone"   executeTasks resuming after `await Promise.resolve()`
\*   "batchNext"  doBatched resuming after `await queue.executeTasks()`
\*   "prepRender" doPrepare's Promise.resolve(null).then(() => this.render())
SettleJob(t, ok) ==
    [kind |-> "settle", ok |-> ok, owner |-> t.owner, cont |-> t.cont,
     targR |-> t.targR, isDummy |-> t.isDummy, q |-> "none"]

PhaseJob(kind, q) ==
    [kind |-> kind, ok |-> TRUE, owner |-> LongScrollOwner, cont |-> "none",
     targR |-> NoRange, isDummy |-> FALSE, q |-> q]

VARIABLES
    dataLength,        \* data.length of the data source
    dom,               \* LongScroll.dom is set (makeDom was called)
    blocks,            \* BlockSetImpl.blocks
    hasTarget,         \* targetRange/leaveRange/targetRow have been assigned
    targetRange,       \* BlockSetImpl.targetRange
    leaveRange,        \* BlockSetImpl.leaveRange
    targetRow,         \* BlockSetImpl.targetRow
    preferredBlockSize,\* BlockSetImpl.preferredBlockSize
    lastTimes,         \* BlockSetImpl.lastTimes
    readQueue,         \* Scheduler.readQueue.queue
    writeQueue,        \* Scheduler.writeQueue.queue
    idleWriteQueue,    \* Scheduler.idleWriteQueue.queue
    microtasks,        \* the engine's microtask queue
    renderCalled,      \* the throttled render has been invoked before
    renderTimer,       \* the throttle's trailing timer is pending
    phase,             \* (history) the phase doBatched is in, "none" outside
    fulfilLog,         \* (history) tasks run by the doBatched in progress, in order
    drainsSinceTarget, \* (history) doBatched calls completed since setTarget
    capHit,            \* (history) an ensureCovers used up its 10 iterations
    repeatCall,        \* (history) how the last setTarget relates to the one before
    errors,            \* (history) errors that left a continuation during this doBatched
    swallowed,         \* (history) continuations that swallowed a cancellation during this doBatched
    rowHeights,        \* LongScroll.rowHeights: the height of each row, in px
    paneHeight,        \* the height style of LongScroll.dom.scrollDiv, in px
    callLog,           \* (history) what the step just taken called on the DOM, the
                       \* data source and the scheduler, in order
    rangeCall,         \* (history) the last call made on a Range value, or on a
                       \* row accessor of LongScroll, by itself
    timer,             \* LongScroll.timer, the AnimationFrameTimer, with the
                       \* host's clock and its pending animation-frame requests
    schedEvent,        \* the SchedulerEvent of the last doBatched
    work               \* (history) what the last doWork drew, found and did

\* The frame timer and what depends on the frame time
frameVars == <<timer, schedEvent, work>>

vars == <<dataLength, dom, blocks, hasTarget, targetRange, leaveRange, targetRow,
          preferredBlockSize, lastTimes, readQueue, writeQueue, idleWriteQueue,
          microtasks, renderCalled, renderTimer, phase, fulfilLog,
          drainsSinceTarget, capHit, repeatCall, errors, swallowed,
          rowHeights, paneHeight, callLog, rangeCall, timer, schedEvent, work>>

\* ------------------------------------------------------------- the heap
\* Handlers change several objects at once; a `world` record carries the
\* ones they share: [blocks, readQueue, writeQueue, idleWriteQueue, microtasks],
\* and `calls`, the calls the handler has made so far
World == [blocks |-> blocks, readQueue |-> readQueue, writeQueue |-> writeQueue,
          idleWriteQueue |-> idleWriteQueue, microtasks |-> microtasks,
          calls |-> <<>>]

QueueOf(w, q) ==
    CASE q = "read" -> w.readQueue
      [] q = "write" -> w.writeQueue
      [] q = "idle" -> w.idleWriteQueue

WithQueue(w, q, queue) ==
    CASE q = "read" -> [w EXCEPT !.readQueue = queue]
      [] q = "write" -> [w EXCEPT !.writeQueue = queue]
      [] q = "idle" -> [w EXCEPT !.idleWriteQueue = queue]

\* Scheduler.makeTaskForQueue, as called by scheduleRead / scheduleWrite /
\* scheduleIdleWrite; ph is the doBatched phase the caller runs in
Schedule(w, q, owner, cont, targR, isDummy, ph) ==
    LET queue == QueueOf(w, q)
        t == Task(owner, cont, targR, isDummy, Len(queue) + 1, ph)
    IN  WithQueue(w, q, AddTask(queue, t))

\* A plausible slip of executeTasks: the loop walks the queue backwards
TasksToRun_reversed(queue) ==
    LET pend == SelectSeq(queue, LAMBDA t : t.state = "Pending")
    IN  [i \in 1..Len(pend) |-> pend[Len(pend) + 1 - i]]

\* A plausible slip of executeTasks: cancelled tasks are not skipped
TasksToRun_all(queue) == queue

\* The tasks the loop of SchedulerQueue.executeTasks runs, in the order it
\* runs them: it skips Rejected tasks.  (A queued task is never Fulfilled:
\* the loop empties the queue it has run.)
TasksToRun(queue) == SelectSeq(queue, LAMBDA t : t.state = "Pending")

\* Task.run for every task of the loop: the promise is resolved, which queues
\* the awaiting continuation as a microtask
RunJobs(run) == [i \in 1..Len(run) |-> SettleJob(run[i], TRUE)]

LogEntries(q, run) == [i \in 1..Len(run) |-> [q |-> q, task |-> run[i]]]

\* A plausible slip of executeTasks: the queue is not emptied, so the tasks
\* it ran stay queued, Fulfilled
ExecuteTasks_keepsQueue(w, q) ==
    LET queue == QueueOf(w, q)
        run == TasksToRun(queue)
        w1 == WithQueue(w, q, [i \in 1..Len(queue) |->
                                  IF queue[i].state = "Pending"
                                  THEN [queue[i] EXCEPT !.state = "Fulfilled"]
                                  ELSE queue[i]])
    IN  [w1 EXCEPT !.microtasks = @ \o RunJobs(run) \o <<PhaseJob("execDone", q)>>]

\* SchedulerQueue.executeTasks up to its await: run the tasks, empty the
\* queue, `await Promise.resolve()`
ExecuteTasks(w, q) ==
    LET run == TasksToRun(QueueOf(w, q))
        w1 == WithQueue(w, q, <<>>)
    IN  [w1 EXCEPT !.microtasks = @ \o RunJobs(run) \o <<PhaseJob("execDone", q)>>]

\* A plausible slip of doBatched: the idle-write queue is drained before the
\* write queue
NextPhase_idleFirst(q) ==
    CASE q = "read" -> "idle"
      [] q = "idle" -> "write"
      [] q = "write" -> "none"

\* A plausible slip of doBatched: the write queue is never drained
NextPhase_skipWrite(q) ==
    CASE q = "read" -> "idle"
      [] q = "write" -> "idle"
      [] q = "idle" -> "none"

\* Scheduler.doBatched: the queue awaited after q
NextPhase(q) ==
    CASE q = "read" -> "write"
      [] q = "write" -> "idle"
      [] q = "idle" -> "none"

\* A plausible slip of clearTasksBy: the owner is not compared
ClearTasksBy_anyOwner(queue, owner) ==
    [i \in 1..Len(queue) |->
        IF queue[i].state = "Pending"
        THEN [queue[i] EXCEPT !.state = "Rejected"] ELSE queue[i]]

\* SchedulerQueue.clearTasksBy: Task.cancel on every Pending task of the owner
ClearTasksBy(queue, owner) ==
    [i \in 1..Len(queue) |->
        IF queue[i].owner = owner /\ queue[i].state = "Pending"
        THEN [queue[i] EXCEPT !.state = "Rejected"] ELSE queue[i]]

\* The rejections clearTasksBy delivers: rejectP queues the awaiting
\* continuation as a microtask
CancelJobsOf(before, after) ==
    LET idx == SelectSeq([i \in 1..Len(before) |-> i],
                         LAMBDA i : before[i].state # after[i].state)
    IN  [k \in 1..Len(idx) |-> SettleJob(before[idx[k]], FALSE)]

\* Scheduler.cancelJobs
CancelJobs(w, owner) ==
    LET r == ClearTasksBy(w.readQueue, owner)
        wr == ClearTasksBy(w.writeQueue, owner)
        i == ClearTasksBy(w.idleWriteQueue, owner)
    IN  [w EXCEPT !.readQueue = r, !.writeQueue = wr, !.idleWriteQueue = i,
                  !.microtasks = @ \o CancelJobsOf(w.readQueue, r)
                                   \o CancelJobsOf(w.writeQueue, wr)
                                   \o CancelJobsOf(w.idleWriteQueue, i)]

\* ---------------------------------------------------------------- blocks
\* The ids of the Block objects something still refers to
UsedIds(w) ==
    {w.blocks[i].id : i \in 1..Len(w.blocks)}
    \cup {w.readQueue[i].owner.id : i \in {j \in 1..Len(w.readQueue) : w.readQueue[j].owner.kind = "block"}}
    \cup {w.writeQueue[i].owner.id : i \in {j \in 1..Len(w.writeQueue) : w.writeQueue[j].owner.kind = "block"}}
    \cup {w.idleWriteQueue[i].owner.id : i \in {j \in 1..Len(w.idleWriteQueue) : w.idleWriteQueue[j].owner.kind = "block"}}
    \cup {w.microtasks[i].owner.id : i \in {j \in 1..Len(w.microtasks) : w.microtasks[j].owner.kind = "block"}}

\* The identity of a newly constructed Block object
FreshId(w) ==
    LET used == UsedIds(w)
    IN  CHOOSE i \in 0..Cardinality(used) : i \notin used /\ \A j \in 0..(i - 1) : j \in used

\* A plausible slip of prepareDummyDoms: the loop stops one row early
NewBlock_shortOfOneDummy(w, range, ph) ==
    LET id == FreshId(w)
        b == [id |-> id, range |-> range, prepared |-> FALSE, dirty |-> TRUE,
              attached |-> FALSE, content |-> "none",
              dummyDoms |-> Cardinality(range.top..(range.bot - 2))]
    IN  <<Schedule(w, "write", BlockOwner(id), "blockAppend", NoRange, FALSE, ph), b>>

\* new BlockImpl(longscroll, range): schedules the write that appends its
\* div, builds the dummy doms (dummyDoms: how many, one for each row forEach
\* visits; they are not attached yet) and sets dirty.  Returns <<world, block>>
NewBlock(w, range, ph) ==
    LET id == FreshId(w)
        b == [id |-> id, range |-> range, prepared |-> FALSE, dirty |-> TRUE,
              attached |-> FALSE, content |-> "none",
              dummyDoms |-> Cardinality(Rows(range))]
    IN  <<Schedule(w, "write", BlockOwner(id), "blockAppend", NoRange, FALSE, ph), b>>

\* BlockSetImpl.createBlockClamped
CreateBlockClamped(w, r, N, ph) == NewBlock(w, ClampTo(r, Range(0, N)), ph)

\* BlockSetImpl.getCoveredRange
GetCoveredRange(bs) ==
    IF Len(bs) = 0 THEN Range(0, 0)
    ELSE Range(bs[1].range.top, bs[Len(bs)].range.bot)

\* BlockSetImpl.makeFirstBlockAt
MakeFirstBlockAt(w, index, pbs, N, ph) ==
    LET nb == CreateBlockClamped(w, Range(index, index + pbs), N, ph)
    IN  [nb[1] EXCEPT !.blocks = <<nb[2]>>]

\* A plausible slip of addBlockAtStart: the new block starts where the
\* covered range starts, so it overlaps the front block
AddBlockAtStart_overlap(w, pbs, N, ph) ==
    LET r == GetCoveredRange(w.blocks)
        nb == CreateBlockClamped(w, Range(r.top - pbs + 1, r.top + 1), N, ph)
    IN  [nb[1] EXCEPT !.blocks = <<nb[2]>> \o w.blocks]

\* BlockSetImpl.addBlockAtStart
AddBlockAtStart(w, pbs, N, ph) ==
    LET r == GetCoveredRange(w.blocks)
        nb == CreateBlockClamped(w, Range(r.top - pbs, r.top), N, ph)
    IN  [nb[1] EXCEPT !.blocks = <<nb[2]>> \o w.blocks]

\* BlockSetImpl.addBlockAtEnd
AddBlockAtEnd(w, pbs, N, ph) ==
    LET r == GetCoveredRange(w.blocks)
        nb == CreateBlockClamped(w, Range(r.bot, r.bot + pbs), N, ph)
    IN  [nb[1] EXCEPT !.blocks = Append(w.blocks, nb[2])]

\* freeDummyDom(i, dummyDoms[offset]) or freeDom(i, doms[offset]) for row i
RowCall(op, ph, id, row) == [op |-> op, ph |-> ph, id |-> id, row |-> row, size |-> 0]

\* A plausible slip of free: freeDom is called without the test of this.doms
FreeCalls_noDomTest(b, ph) ==
    LET n == Cardinality(Rows(b.range))
        rowCalls == [k \in 1..(2 * n) |->
                        IF k % 2 = 1
                        THEN RowCall("freeDummyDom", ph, b.id, b.range.top + (k - 1) \div 2)
                        ELSE RowCall("freeDom", ph, b.id, b.range.top + (k - 1) \div 2)]
    IN  rowCalls \o <<Call("cancelJobs", ph, b.id), Call("domDispose", ph, b.id)>>

\* The calls of BlockImpl.free, in order: range.forEach calls freeDummyDom
\* for the row and, for a prepared block, freeDom for the row; then
\* cancelJobs(this); then the div is disposed and emptied
FreeCalls(b, ph) ==
    LET n == Cardinality(Rows(b.range))
        rowCalls == [k \in 1..(2 * n) |->
                        IF k % 2 = 1
                        THEN RowCall("freeDummyDom", ph, b.id, b.range.top + (k - 1) \div 2)
                        ELSE RowCall("freeDom", ph, b.id, b.range.top + (k - 1) \div 2)]
    IN  (IF b.prepared THEN rowCalls
         ELSE SelectSeq(rowCalls, LAMBDA c : c.op = "freeDummyDom"))
        \o <<Call("cancelJobs", ph, b.id), Call("domDispose", ph, b.id)>>

\* BlockImpl.free: the doms go back to the data source, the block's pending
\* tasks are cancelled, its div is disposed
Free(w, b, ph) == Log(CancelJobs(w, BlockOwner(b.id)), FreeCalls(b, ph))

\* BlockSetImpl.freeBlockAtStart
FreeBlockAtStart(w, ph) ==
    Free([w EXCEPT !.blocks = Tail(w.blocks)], Head(w.blocks), ph)

\* BlockSetImpl.freeBlockAtEnd
FreeBlockAtEnd(w, ph) ==
    Free([w EXCEPT !.blocks = SubSeq(w.blocks, 1, Len(w.blocks) - 1)],
         w.blocks[Len(w.blocks)], ph)

\* A plausible slip of the first loop: it compares the block's top, so a
\* block that reaches into the leave range is dropped too
RECURSIVE FreeAbove_top(_, _, _)
FreeAbove_top(w, leave, ph) ==
    IF Len(w.blocks) > 0 /\ w.blocks[1].range.top <= leave.top
    THEN FreeAbove_top(FreeBlockAtStart(w, ph), leave, ph)
    ELSE w

\* ensureCovers, first loop: drop the blocks fully above the leave range
RECURSIVE FreeAbove(_, _, _)
FreeAbove(w, leave, ph) ==
    IF Len(w.blocks) > 0 /\ w.blocks[1].range.bot <= leave.top
    THEN FreeAbove(FreeBlockAtStart(w, ph), leave, ph)
    ELSE w

\* A plausible slip of the second loop: it compares the block's bottom, so a
\* block that reaches the end of the leave range is dropped too
RECURSIVE FreeBelow_bot(_, _, _)
FreeBelow_bot(w, leave, ph) ==
    IF Len(w.blocks) > 0 /\ w.blocks[Len(w.blocks)].range.bot >= leave.bot
    THEN FreeBelow_bot(FreeBlockAtEnd(w, ph), leave, ph)
    ELSE w

\* ensureCovers, second loop: drop the blocks fully past the leave range
RECURSIVE FreeBelow(_, _, _)
FreeBelow(w, leave, ph) ==
    IF Len(w.blocks) > 0 /\ w.blocks[Len(w.blocks)].range.top >= leave.bot
    THEN FreeBelow(FreeBlockAtEnd(w, ph), leave, ph)
    ELSE w

\* ensureCovers, main section: up to 10 rounds of adding a block at the start
\* and/or the end.  Returns [w, capHit]: capHit when the rounds ran out
RECURSIVE CoverLoop(_, _, _, _, _, _)
CoverLoop(w, targR, i, pbs, N, ph) ==
    IF i >= maxCoverIterations THEN [w |-> w, capHit |-> TRUE]
    ELSE
        LET currR == GetCoveredRange(w.blocks)
        IN  IF ContainsRange(currR, targR) THEN [w |-> w, capHit |-> FALSE]
            ELSE
                LET w1 == IF targR.top < currR.top
                          THEN AddBlockAtStart(w, pbs, N, ph) ELSE w
                    w2 == IF targR.bot > currR.bot
                          THEN AddBlockAtEnd(w1, pbs, N, ph) ELSE w1
                IN  CoverLoop(w2, targR, i + 1, pbs, N, ph)

\* BlockSetImpl.debug: throws when the leave range does not contain the target
DebugThrows(leave, target) == ~ContainsRange(leave, target)

\* ensureCovers after its await, given that debug() did not throw
EnsureCoversBody(w, targR, leave, row, pbs, N, ph) ==
    LET w1 == FreeBelow(FreeAbove(w, leave, ph), leave, ph)
        w2 == IF Len(w1.blocks) = 0
              THEN MakeFirstBlockAt(w1, row - (pbs \div 2), pbs, N, ph)
              ELSE w1
    IN  CoverLoop(w2, targR, 0, pbs, N, ph)

\* Block.render for every block, as the throttled BlockSetImpl.render runs
\* it: a dirty block clears dirty, captures isDummyRender and suspends on an
\* idle write
RECURSIVE RenderBlocks(_, _, _)
RenderBlocks(w, i, ph) ==
    IF i > Len(w.blocks) THEN w
    ELSE IF w.blocks[i].dirty
         THEN RenderBlocks(
                  Schedule([w EXCEPT !.blocks[i].dirty = FALSE], "idle",
                           BlockOwner(w.blocks[i].id), "renderWrite", NoRange,
                           ~w.blocks[i].prepared, ph),
                  i + 1, ph)
         ELSE RenderBlocks(w, i + 1, ph)

\* ------------------------------------------------------ preparing blocks
\* A plausible slip of getNextUnpreparedBlock: the walk goes backward only
WalkOutward_backOnly(bs, back, forward) ==
    LET before == {i \in 1..back : ~bs[i].prepared}
    IN  IF before = {} THEN 0 ELSE CHOOSE i \in before : \A j \in before : j <= i

\* getNextUnpreparedBlock's outward walk from the centre block; 0 for null
RECURSIVE WalkOutward(_, _, _)
WalkOutward(bs, back, forward) ==
    IF ~(back >= 1 \/ forward <= Len(bs)) THEN 0
    ELSE IF back >= 1 /\ ~bs[back].prepared THEN back
    ELSE IF forward <= Len(bs) /\ ~bs[forward].prepared THEN forward
    ELSE WalkOutward(bs, back - 1, forward + 1)

\* A plausible slip of getNextUnpreparedBlock: the centre block is returned
\* without the test of isPrepared()
GetNextUnpreparedBlock_centre(bs, row, N) ==
    LET tr == ClampNum(Range(0, N), row)
        hits == {i \in 1..Len(bs) : ContainsNum(bs[i].range, tr)}
    IN  IF hits = {} THEN 0
        ELSE CHOOSE i \in hits : \A j \in hits : i <= j

\* BlockSetImpl.getNextUnpreparedBlock: the index of the block, 0 for null
GetNextUnpreparedBlock(bs, row, N) ==
    LET tr == ClampNum(Range(0, N), row)
        hits == {i \in 1..Len(bs) : ContainsNum(bs[i].range, tr)}
    IN  IF hits = {} THEN 0
        ELSE LET centerBlock == CHOOSE i \in hits : \A j \in hits : i <= j
             IN  WalkOutward(bs, centerBlock, centerBlock + 1)

\* A plausible slip of updateBlockTimes: the shrunk size is not held at
\* minBlockSize
UpdateBlockTimes_noMin(times, size, time) ==
    LET pushed == Append(times, time)
        kept == IF Len(pushed) > maxLastTimes
                THEN SubSeq(pushed, Len(pushed) - maxLastTimes + 1, Len(pushed))
                ELSE pushed
        numOver == Cardinality({i \in 1..Len(kept) : kept[i] > preferredBlockTime})
        shrinkBy == (size + 4) \div 5
    IN  IF Len(kept) = maxLastTimes /\ numOver >= 4
        THEN [times |-> <<>>, size |-> size - shrinkBy]
        ELSE [times |-> kept, size |-> size]

\* A plausible slip of updateBlockTimes: Math.floor in place of Math.ceil
UpdateBlockTimes_floor(times, size, time) ==
    LET pushed == Append(times, time)
        kept == IF Len(pushed) > maxLastTimes
                THEN SubSeq(pushed, Len(pushed) - maxLastTimes + 1, Len(pushed))
                ELSE pushed
        numOver == Cardinality({i \in 1..Len(kept) : kept[i] > preferredBlockTime})
        shrinkBy == size \div 5
        shrunk == IF size - shrinkBy > minBlockSize THEN size - shrinkBy ELSE minBlockSize
    IN  IF Len(kept) = maxLastTimes /\ numOver >= 4
        THEN [times |-> <<>>, size |-> shrunk]
        ELSE [times |-> kept, size |-> size]

\* BlockSetImpl.updateBlockTimes: returns [times, size].  Math.ceil(size * 0.2)
\* is the ceiling of size / 5 for every size from 1 to 19 (the double
\* products are exact or round to the same side)
UpdateBlockTimes(times, size, time) ==
    LET pushed == Append(times, time)
        kept == IF Len(pushed) > maxLastTimes
                THEN SubSeq(pushed, Len(pushed) - maxLastTimes + 1, Len(pushed))
                ELSE pushed
        numOver == Cardinality({i \in 1..Len(kept) : kept[i] > preferredBlockTime})
        shrinkBy == (size + 4) \div 5
        shrunk == IF size - shrinkBy > minBlockSize THEN size - shrinkBy ELSE minBlockSize
    IN  IF Len(kept) = maxLastTimes /\ numOver >= 4
        THEN [times |-> <<>>, size |-> shrunk]
        ELSE [times |-> kept, size |-> size]

\* ---------------------------------------------------------------- inputs
\* The lengths the data source takes while the host changes it
DataLengths == {0, LargeLength}

\* The rows the ends of the buffer region fall on, as getClampedRowAtPx
\* clamps them: 0 for a pixel above the pane, N - 1 for one past its end
RowChoices(N) == {0, N - 1}

\* <<rowStart, getClampedRowAtPx(pixBuff.bot)>> of one updateViewport.  With
\* no rows getClampedRowAtPx is 0 above the pane and N - 1 = -1 elsewhere
ViewportRows(N) ==
    IF N = 0 THEN {<<0, -1>>, <<-1, -1>>}
    ELSE {p \in RowChoices(N) \X RowChoices(N) : p[1] <= p[2]}

\* Whether 10 ms have passed since the throttled render last ran
ThrottleNow == BOOLEAN

\* The height getBoundingClientRect reports for the real rows of a block:
\* the default, or taller
MeasuredHeights == {30, 40}

\* ------------------------------------------------------- the frame timer
\* Numbers that need not be whole: the quotient num / den, den > 0
Rat(n, d) == [num |-> n, den |-> d]

RatLE(a, b) == a.num * b.den <= b.num * a.den

RatEq(a, b) == a.num * b.den = b.num * a.den

\* Math.min and Math.max
RatMin(a, b) == IF RatLE(a, b) THEN a ELSE b

RatMax(a, b) == IF RatLE(a, b) THEN b ELSE a

\* new AveragedValue(5)
maxSamples == 5

RECURSIVE SumOfSeq(_)
SumOfSeq(seq) == IF seq = <<>> THEN 0 ELSE Head(seq) + SumOfSeq(Tail(seq))

\* AveragedValue.addValue
AddValue(samples, v) ==
    LET pushed == Append(samples, v)
    IN  IF Len(pushed) >= maxSamples THEN Tail(pushed) ELSE pushed

\* AveragedValue.get, of at least one sample (it throws without any)
GetAverage(samples) == Rat(SumOfSeq(samples), Len(samples))

\* timerHandle when no animation frame is requested
NoHandle == -1

\* Date.now() when the timer is constructed, in ms
StartTime == 1000

\* What the callback handed to the timer does when it is run: LongScroll.tick,
\* or any other callback, which returns, throws, or stops or starts the timer
Callbacks == {"tick", "returns", "throws", "stop", "start"}

\* new AnimationFrameTimer(cb).  clock is the host's Date.now() and requests
\* the animation frames it has been asked for and not yet run or cancelled;
\* frames counts the ticks; stopped, ranStopped, unwound and durations are
\* history: stop() was called last of start() and stop(), the callback ran
\* while that was so, the last tick let an error out to the host, every frame
\* duration measured so far
NewTimer ==
    [samples |-> <<>>, timerHandle |-> NoHandle, requests |-> {},
     lastFrameAt |-> StartTime, lastFrameDuration |-> -1, clock |-> StartTime,
     frames |-> 0, stopped |-> FALSE, ranStopped |-> FALSE, unwound |-> FALSE,
     durations |-> <<>>]

\* requestAnimationFrame: a handle no pending request has
NextHandle(t) == CHOOSE h \in 1..(Cardinality(t.requests) + 1) : h \notin t.requests

\* AnimationFrameTimer.queueTick
QueueTick(t) ==
    LET c == IF t.timerHandle # NoHandle
             THEN [t EXCEPT !.requests = @ \ {t.timerHandle}] ELSE t
    IN  [c EXCEPT !.timerHandle = NextHandle(c), !.requests = @ \cup {NextHandle(c)}]

\* AnimationFrameTimer.start
Start(t) == QueueTick([t EXCEPT !.lastFrameAt = t.clock, !.stopped = FALSE])

\* AnimationFrameTimer.stop
Stop(t) ==
    LET s == [t EXCEPT !.lastFrameAt = -1, !.stopped = TRUE]
    IN  IF s.timerHandle # NoHandle
        THEN [s EXCEPT !.requests = @ \ {s.timerHandle}, !.timerHandle = NoHandle]
        ELSE s

\* AnimationFrameTimer.tick up to the callback: the host runs request h,
\* elapsed ms after the last tick
BeforeCallback(t, h, elapsed) ==
    LET timeNow == t.clock + elapsed
    IN  [t EXCEPT !.requests = @ \ {h},
                  !.clock = timeNow,
                  !.timerHandle = NoHandle,
                  !.lastFrameDuration = timeNow - t.lastFrameAt,
                  !.samples = AddValue(@, timeNow - t.lastFrameAt),
                  !.lastFrameAt = timeNow,
                  !.frames = @ + 1,
                  !.ranStopped = t.stopped,
                  !.durations = Append(@, timeNow - t.lastFrameAt)]

\* What the callback does to the timer
DuringCallback(t, cb) ==
    CASE cb = "stop" -> Stop(t)
      [] cb = "start" -> Start(t)
      [] OTHER -> t

\* AnimationFrameTimer.tick: try { cb() } finally { queueTick() }
TimerTick(t, h, elapsed, cb) ==
    [QueueTick(DuringCallback(BeforeCallback(t, h, elapsed), cb))
        EXCEPT !.unwound = (cb = "throws")]

\* Scheduler.lowThresh, hiThresh and maxLoad
lowThresh == 25

hiThresh == 50

maxLoad == Rat(19, 20)

\* A plausible slip of getLoadFactor: the load is let up to 1
GetLoadFactor_upToOne(samples) ==
    LET n == Len(samples)
        loadFactor == Rat(SumOfSeq(samples) - lowThresh * n, (hiThresh - lowThresh) * n)
    IN  RatMax(Rat(0, 1), RatMin(Rat(1, 1), loadFactor))

\* Scheduler.getLoadFactor, of the timer's samples:
\* (frameTime - lowThresh) / (hiThresh - lowThresh) with frameTime their mean
GetLoadFactor(samples) ==
    LET n == Len(samples)
        loadFactor == Rat(SumOfSeq(samples) - lowThresh * n, (hiThresh - lowThresh) * n)
    IN  RatMax(Rat(0, 1), RatMin(maxLoad, loadFactor))

\* The SchedulerEvent doBatched makes of the timer
SchedEventOf(t) ==
    [loadFactor |-> GetLoadFactor(t.samples), lastFrameTime |-> t.lastFrameDuration]

\* No doBatched has run yet, no doWork has run yet
NoEvent == [loadFactor |-> Rat(0, 1), lastFrameTime |-> -1]

NoWork == [drawn |-> Rat(0, 1), found |-> 0, ran |-> FALSE, took |-> 0]

\* ----------------------------------------------------------------- Init
\* The state new LongScroll(data) leaves: reInit's onScroll returns at once
\* (no dom yet), the block set is empty, the timer is started
InitWithHeights(lengths, heights) ==
    /\ dataLength \in lengths
    /\ dom = FALSE
    /\ blocks = <<>>
    /\ hasTarget = FALSE
    /\ targetRange = NoRange
    /\ leaveRange = NoRange
    /\ targetRow = 0
    /\ preferredBlockSize = initialBlockSize
    /\ lastTimes = <<>>
    /\ readQueue = <<>>
    /\ writeQueue = <<>>
    /\ idleWriteQueue = <<>>
    /\ microtasks = <<>>
    /\ renderCalled = FALSE
    /\ renderTimer = FALSE
    /\ phase = "none"
    /\ fulfilLog = <<>>
    /\ drainsSinceTarget = 0
    /\ capHit = FALSE
    /\ repeatCall = [same |-> FALSE, prevCap |-> FALSE]
    /\ errors = {}
    /\ swallowed = {}
    /\ rowHeights \in [0..(dataLength - 1) -> heights]
    /\ paneHeight = 0
    /\ callLog = <<>>
    /\ rangeCall = NoCall
    /\ timer = Start(NewTimer)
    /\ schedEvent = NoEvent
    /\ work = NoWork

\* reInit fills the row heights with the default
InitWith(lengths) == InitWithHeights(lengths, {defaultRowHeight})

Init == InitWith(DataLengths)

\* Assign the shared objects from a world record
SetWorld(w) ==
    /\ blocks' = w.blocks
    /\ readQueue' = w.readQueue
    /\ writeQueue' = w.writeQueue
    /\ idleWriteQueue' = w.idleWriteQueue
    /\ microtasks' = w.microtasks
    /\ callLog' = w.calls

\* Between two turns of the event loop: no microtask is left
Idle == microtasks = <<>>

PendingViewportReads ==
    Cardinality({i \in 1..Len(readQueue) : readQueue[i].cont = "updateViewport"})

\* ------------------------------------------------------------ host calls
\* LongScroll.makeDom
MakeDom ==
    /\ Idle
    /\ ~dom
    /\ dom' = TRUE
    /\ UNCHANGED <<dataLength, blocks, hasTarget, targetRange, leaveRange, targetRow,
                   preferredBlockSize, lastTimes, readQueue, writeQueue,
                   idleWriteQueue, microtasks, renderCalled, renderTimer, phase,
                   fulfilLog, drainsSinceTarget, capHit, repeatCall, errors, swallowed>>
    /\ paneHeight' = GetSumTo(rowHeights, dataLength)
    /\ callLog' = <<Call("appendPane", phase, -1)>>
    /\ UNCHANGED <<rowHeights, rangeCall, frameVars>>

\* LongScroll.reInit before its onScroll: the row heights are rebuilt with 30
\* px for each of the N rows and, once there is a dom, the pane gets their
\* total as its height
ReInit(N) ==
    /\ rowHeights' = FillFromValues(N)
    /\ IF dom
       THEN /\ paneHeight' = GetSumTo(FillFromValues(N), N)
            /\ callLog' = <<Call("paneHeight", phase, -1)>>
       ELSE /\ UNCHANGED paneHeight
            /\ callLog' = <<>>

\* A plausible slip of onScroll: no test of this.dom
OnScrollBody_noDomTest ==
    readQueue' = Schedule(World, "read", LongScrollOwner, "updateViewport",
                          NoRange, FALSE, phase).readQueue

\* LongScroll.onScroll with the call of updateViewport up to its await
OnScrollBody ==
    IF ~dom
    THEN UNCHANGED <<readQueue>>
    ELSE readQueue' = Schedule(World, "read", LongScrollOwner, "updateViewport",
                               NoRange, FALSE, phase).readQueue

\* The scroll listener
OnScroll ==
    /\ Idle
    /\ PendingViewportReads < MaxPendingScroll
    /\ OnScrollBody
    /\ UNCHANGED <<dataLength, dom, blocks, hasTarget, targetRange, leaveRange,
                   targetRow, preferredBlockSize, lastTimes, writeQueue,
                   idleWriteQueue, microtasks, renderCalled, renderTimer, phase,
                   fulfilLog, drainsSinceTarget, capHit, repeatCall, errors, swallowed>>
    /\ callLog' = <<>>
    /\ UNCHANGED <<rowHeights, paneHeight, rangeCall, frameVars>>

\* The host changes the data and calls LongScroll.onDataChange (reInit)
OnDataChange(n) ==
    /\ Idle
    /\ PendingViewportReads < MaxPendingScroll
    /\ n # dataLength
    /\ dataLength' = n
    /\ OnScrollBody
    /\ UNCHANGED <<dom, blocks, hasTarget, targetRange, leaveRange,
                   targetRow, preferredBlockSize, lastTimes, writeQueue,
                   idleWriteQueue, microtasks, renderCalled, renderTimer, phase,
                   fulfilLog, drainsSinceTarget, capHit, repeatCall, errors, swallowed>>
    /\ ReInit(n)
    /\ UNCHANGED <<rangeCall, frameVars>>

\* The host calls LongScroll.onResize: reInit with the data as it is
OnResize ==
    /\ Idle
    /\ PendingViewportReads < MaxPendingScroll
    /\ OnScrollBody
    /\ UNCHANGED <<dataLength, dom, blocks, hasTarget, targetRange, leaveRange,
                   targetRow, preferredBlockSize, lastTimes, writeQueue,
                   idleWriteQueue, microtasks, renderCalled, renderTimer, phase,
                   fulfilLog, drainsSinceTarget, capHit, repeatCall, errors, swallowed>>
    /\ ReInit(dataLength)
    /\ UNCHANGED <<rangeCall, frameVars>>

\* A new doBatched call begins: the tasks still queued were scheduled before it
BeforeBatch(queue) == [i \in 1..Len(queue) |-> [queue[i] EXCEPT !.born = "none"]]

\* A plausible slip of tick: scheduleWrite in place of scheduleIdleWrite
LongScrollTick_onWrite ==
    /\ Idle
    /\ LET w0 == [World EXCEPT !.readQueue = BeforeBatch(@),
                               !.writeQueue = BeforeBatch(@),
                               !.idleWriteQueue = BeforeBatch(@)]
           w1 == Schedule(w0, "write", LongScrollOwner, "doWork", NoRange, FALSE, "none")
       IN  /\ SetWorld(ExecuteTasks(w1, "read"))
           /\ fulfilLog' = LogEntries("read", TasksToRun(w1.readQueue))
    /\ phase' = "read"
    /\ UNCHANGED <<dataLength, dom, hasTarget, targetRange, leaveRange, targetRow,
                   preferredBlockSize, lastTimes, renderCalled, renderTimer,
                   drainsSinceTarget, capHit, repeatCall, errors, swallowed>>
    /\ UNCHANGED <<rowHeights, paneHeight, rangeCall>>

\* LongScroll.tick: schedule doWork on an idle write, then Scheduler.doBatched
\* up to its first await
LongScrollTick ==
    /\ Idle
    /\ LET w0 == [World EXCEPT !.readQueue = BeforeBatch(@),
                               !.writeQueue = BeforeBatch(@),
                               !.idleWriteQueue = BeforeBatch(@)]
           w1 == Schedule(w0, "idle", LongScrollOwner, "doWork", NoRange, FALSE, "none")
       IN  /\ SetWorld(ExecuteTasks(w1, "read"))
           /\ fulfilLog' = LogEntries("read", TasksToRun(w1.readQueue))
    /\ phase' = "read"
    /\ UNCHANGED <<dataLength, dom, hasTarget, targetRange, leaveRange, targetRow,
                   preferredBlockSize, lastTimes, renderCalled, renderTimer,
                   drainsSinceTarget, capHit, repeatCall, errors, swallowed>>
    /\ UNCHANGED <<rowHeights, paneHeight, rangeCall>>

\* LongScroll.tick run by the frame timer, the frame times left aside
Tick == LongScrollTick /\ UNCHANGED <<timer, schedEvent, work>>

\* The load factors doBatched is made to find: none, and that of one short
\* frame and one long
LoadFactors == {GetLoadFactor(<<16>>), GetLoadFactor(<<16, 60>>)}

\* LongScroll.tick run by the frame timer, its doBatched finding the load
\* factor lf
TickUnder(lf) ==
    /\ LongScrollTick
    /\ schedEvent' = [loadFactor |-> lf, lastFrameTime |-> timer.lastFrameDuration]
    /\ work' = NoWork
    /\ UNCHANGED timer

\* The frame durations the host lets pass between two ticks, in ms: under
\* lowThresh and over hiThresh
FrameTimes == {16, 60}

\* The ticks a timer is followed through
MaxFrames == 6

\* AnimationFrameTimer.tick, run by the host for a pending request, with what
\* its callback does; LongScroll.tick calls doBatched, which makes the
\* SchedulerEvent of the frame before anything else
FrameTick(elapsed, cb) ==
    /\ Idle
    /\ timer.frames < MaxFrames
    /\ \E h \in timer.requests :
          /\ timer' = TimerTick(timer, h, elapsed, cb)
          /\ IF cb = "tick"
             THEN /\ LongScrollTick
                  /\ schedEvent' = SchedEventOf(BeforeCallback(timer, h, elapsed))
                  /\ UNCHANGED work
             ELSE /\ callLog' = <<>>
                  /\ UNCHANGED <<dataLength, dom, blocks, hasTarget, targetRange,
                                 leaveRange, targetRow, preferredBlockSize, lastTimes,
                                 readQueue, writeQueue, idleWriteQueue, microtasks,
                                 renderCalled, renderTimer, phase, fulfilLog,
                                 drainsSinceTarget, capHit, repeatCall, errors,
                                 swallowed, rowHeights, paneHeight, rangeCall,
                                 schedEvent, work>>

\* The host calls timer.start() or timer.stop() between two frames
TimerCalled(t) ==
    /\ Idle
    /\ timer' = t
    /\ callLog' = <<>>
    /\ UNCHANGED <<dataLength, dom, blocks, hasTarget, targetRange, leaveRange,
                   targetRow, preferredBlockSize, lastTimes, readQueue, writeQueue,
                   idleWriteQueue, microtasks, renderCalled, renderTimer, phase,
                   fulfilLog, drainsSinceTarget, capHit, repeatCall, errors,
                   swallowed, rowHeights, paneHeight, rangeCall, schedEvent, work>>

TimerStart == TimerCalled(Start(timer))

TimerStop == TimerCalled(Stop(timer))

\* ------------------------------------------------------------ microtasks
Job == Head(microtasks)

\* The world once the running job has been taken off the microtask queue
Popped == [World EXCEPT !.microtasks = Tail(@)]

Resumes(cont) ==
    /\ microtasks # <<>>
    /\ Job.kind = "settle"
    /\ Job.ok
    /\ Job.cont = cont

\* executeTasks after `await Promise.resolve()`: it returns, which resumes
\* the doBatched that awaits it one microtask later
ExecDone ==
    /\ microtasks # <<>>
    /\ Job.kind = "execDone"
    /\ microtasks' = Append(Tail(microtasks), PhaseJob("batchNext", Job.q))
    /\ UNCHANGED <<dataLength, dom, blocks, hasTarget, targetRange, leaveRange,
                   targetRow, preferredBlockSize, lastTimes, readQueue, writeQueue,
                   idleWriteQueue, renderCalled, renderTimer, phase, fulfilLog,
                   drainsSinceTarget, capHit, repeatCall, errors, swallowed>>
    /\ callLog' = <<>>
    /\ UNCHANGED <<rowHeights, paneHeight, rangeCall, frameVars>>

\* doBatched after `await queue.executeTasks(schedEvent)`: the next queue's
\* executeTasks, or the end of doBatched
BatchNext ==
    /\ microtasks # <<>>
    /\ Job.kind = "batchNext"
    /\ LET q == NextPhase(Job.q)
       IN  IF q = "none"
           THEN /\ microtasks' = Tail(microtasks)
                /\ drainsSinceTarget' =
                       IF hasTarget /\ drainsSinceTarget < 2
                       THEN drainsSinceTarget + 1 ELSE drainsSinceTarget
                /\ fulfilLog' = <<>>
                /\ errors' = {}
                /\ swallowed' = {}
                /\ callLog' = <<>>
                /\ UNCHANGED <<blocks, readQueue, writeQueue, idleWriteQueue>>
           ELSE /\ SetWorld(ExecuteTasks(Popped, q))
                /\ fulfilLog' = fulfilLog \o LogEntries(q, TasksToRun(QueueOf(World, q)))
                /\ UNCHANGED <<drainsSinceTarget, errors, swallowed>>
    /\ phase' = NextPhase(Job.q)
    /\ UNCHANGED <<dataLength, dom, hasTarget, targetRange, leaveRange, targetRow,
                   preferredBlockSize, lastTimes, renderCalled, renderTimer,
                   capHit, repeatCall>>
    /\ UNCHANGED <<rowHeights, paneHeight, rangeCall, frameVars>>

\* A plausible slip of setTarget: Math.floor in place of Math.round
LeaveRangeFor_floor(range, N) ==
    LET height == Height(range)
        newTop == (3 * range.top - height) \div 3
        newBot == (3 * range.bot + height) \div 3
    IN  ClampTo(Range(newTop, newBot), Range(0, N))

\* The leave range setTarget derives from the target range
LeaveRangeFor(range, N) ==
    LET height == Height(range)
        newTop == RoundThirds(3 * range.top - height)
        newBot == RoundThirds(3 * range.bot + height)
    IN  ClampTo(Range(newTop, newBot), Range(0, N))

\* A plausible slip of ensureCovers: it awaits scheduleRead
EnsureCoversStart_onRead(w, targR, ph) ==
    IF ContainsRange(GetCoveredRange(w.blocks), targR) THEN w
    ELSE Schedule(w, "read", BlockSetOwner, "ensureCovers", targR, FALSE, ph)

\* BlockSetImpl.ensureCovers up to its await: nothing when the blocks cover
\* the target, else suspend on a write with targR captured
EnsureCoversStart(w, targR, ph) ==
    IF ContainsRange(GetCoveredRange(w.blocks), targR) THEN w
    ELSE Schedule(w, "write", BlockSetOwner, "ensureCovers", targR, FALSE, ph)

\* The throttled BlockSetImpl.render (_.throttle, 10 ms): it runs at once
\* when 10 ms have passed since the last run (now), else it arms the
\* trailing timer
ThrottledRender(w, now, ph) ==
    IF now THEN RenderBlocks(w, 1, ph) ELSE w

ThrottleChoice(now) == renderCalled \/ now

ThrottleState(now) ==
    /\ renderCalled' = TRUE
    /\ renderTimer' = IF now THEN FALSE ELSE TRUE

\* LongScroll.updateViewport after its read: the viewport is measured, the
\* buffer region becomes rows, BlockSetImpl.setTarget, then blocks.render()
UpdateViewportResume(rows, now) ==
    /\ Resumes("updateViewport")
    /\ ThrottleChoice(now)
    /\ LET rowStart == rows[1]
           rowEnd == rows[2] + 1
           rowsToBuffer == Range(rowStart, rowEnd)
           startRenderingFrom == (rowStart + rowEnd) \div 2
           w0 == Log(Popped, <<Call("scrollTop", phase, -1)>>)
           w1 == EnsureCoversStart(w0, rowsToBuffer, phase)
       IN  /\ targetRow' = startRenderingFrom
           /\ targetRange' = rowsToBuffer
           /\ leaveRange' = LeaveRangeFor(rowsToBuffer, dataLength)
           /\ SetWorld(ThrottledRender(w1, now, phase))
    /\ ThrottleState(now)
    /\ hasTarget' = TRUE
    /\ drainsSinceTarget' = 0
    /\ capHit' = FALSE
    /\ repeatCall' = [same |-> hasTarget /\ targetRange = targetRange'
                                  /\ targetRow = targetRow',
                      prevCap |-> capHit]
    /\ UNCHANGED <<dataLength, dom, preferredBlockSize, lastTimes, phase, fulfilLog,
                   errors, swallowed>>
    /\ UNCHANGED <<rowHeights, paneHeight, rangeCall, frameVars>>

\* BlockSetImpl.ensureCovers after its write: debug(), free, first block,
\* cover.  An error thrown by debug() leaves through showPromiseError
EnsureCoversResume ==
    /\ Resumes("ensureCovers")
    /\ IF DebugThrows(leaveRange, targetRange)
       THEN /\ microtasks' = Tail(microtasks)
            /\ errors' = errors \cup {"debug"}
            /\ callLog' = <<>>
            /\ UNCHANGED <<blocks, readQueue, writeQueue, idleWriteQueue, capHit>>
       ELSE LET r == EnsureCoversBody(Popped, Job.targR, leaveRange, targetRow,
                                      preferredBlockSize, dataLength, phase)
            IN  /\ SetWorld(r.w)
                /\ capHit' = (capHit \/ r.capHit)
                /\ UNCHANGED errors
    /\ UNCHANGED <<dataLength, dom, hasTarget, targetRange, leaveRange, targetRow,
                   preferredBlockSize, lastTimes, renderCalled, renderTimer, phase,
                   fulfilLog, drainsSinceTarget, repeatCall, swallowed>>
    /\ UNCHANGED <<rowHeights, paneHeight, rangeCall, frameVars>>

\* The index of the live block with this id, 0 when it has been freed
BlockIndex(bs, id) ==
    LET hits == {i \in 1..Len(bs) : bs[i].id = id}
    IN  IF hits = {} THEN 0 ELSE CHOOSE i \in hits : TRUE

\* The Block constructor's write: the block's div is appended to the pane
BlockAppendResume ==
    /\ Resumes("blockAppend")
    /\ LET i == BlockIndex(blocks, Job.owner.id)
       IN  blocks' = IF i = 0 THEN blocks ELSE [blocks EXCEPT ![i].attached = TRUE]
    /\ microtasks' = Tail(microtasks)
    /\ UNCHANGED <<dataLength, dom, hasTarget, targetRange, leaveRange, targetRow,
                   preferredBlockSize, lastTimes, readQueue, writeQueue,
                   idleWriteQueue, renderCalled, renderTimer, phase, fulfilLog,
                   drainsSinceTarget, capHit, repeatCall, errors, swallowed>>
    /\ callLog' = <<Call("appendBlock", phase, Job.owner.id)>>
    /\ UNCHANGED <<rowHeights, paneHeight, rangeCall, frameVars>>

\* Block.render after its idle write: the fragment replaces the div's
\* children, updatePos, then it suspends on a read
RenderWriteResume ==
    /\ Resumes("renderWrite")
    /\ LET i == BlockIndex(blocks, Job.owner.id)
           shown == IF Job.isDummy THEN "dummy" ELSE "real"
           w1 == IF i = 0 THEN Popped ELSE [Popped EXCEPT !.blocks[i].content = shown]
           w2 == Log(w1, <<Call("setContent", phase, Job.owner.id),
                           IF i = 0 THEN Call("updatePos", phase, Job.owner.id)
                           ELSE UpdatePosCall(phase, blocks[i], rowHeights)>>)
       IN  SetWorld(Schedule(w2, "read", Job.owner, "renderRead", NoRange,
                             Job.isDummy, phase))
    /\ UNCHANGED <<dataLength, dom, hasTarget, targetRange, leaveRange, targetRow,
                   preferredBlockSize, lastTimes, renderCalled, renderTimer, phase,
                   fulfilLog, drainsSinceTarget, capHit, repeatCall, errors, swallowed>>
    /\ UNCHANGED <<rowHeights, paneHeight, rangeCall, frameVars>>

\* The rows of a range whose stored height differs from the height px
\* measured for them, in row order: the {index, newSize} entries measure()
\* collects
ChangedRows(rh, range, px) ==
    SelectSeq([k \in 1..Cardinality(Rows(range)) |->
                  [index |-> range.top + k - 1, newSize |-> px]],
              LAMBDA c : GetValue(rh, c.index) # c.newSize)

\* rows.forEach(r => this.rowHeights.setValue(r.index, r.newSize))
RECURSIVE SetValues(_, _, _)
SetValues(rh, rows, k) ==
    IF k > Len(rows) THEN rh
    ELSE SetValues(SetValue(rh, rows[k].index, rows[k].newSize), rows, k + 1)

\* A plausible slip of updateRowSize: the last change is left out
UpdateRowSize_dropsLast(w, rh, rows, ph) ==
    LET rh1 == SetValues(rh, SubSeq(rows, 1, Len(rows) - 1), 1)
        sets == [k \in 1..Len(rows) |->
                    SetValueCall(ph, rows[k].index, rows[k].newSize)]
        moves == [k \in 1..Len(w.blocks) |-> UpdatePosCall(ph, w.blocks[k], rh1)]
        w1 == Log(w, sets \o moves)
        w2 == Schedule(w1, "read", LongScrollOwner, "updateViewport", NoRange, FALSE, ph)
        w3 == Schedule(w2, "write", LongScrollOwner, "paneResize", NoRange, FALSE, ph)
    IN  [w |-> w3, rh |-> rh1]

\* A plausible slip of updateRowSize: the blocks are repositioned before the
\* heights are stored
UpdateRowSize_stalePos(w, rh, rows, ph) ==
    LET rh1 == SetValues(rh, rows, 1)
        sets == [k \in 1..Len(rows) |->
                    SetValueCall(ph, rows[k].index, rows[k].newSize)]
        moves == [k \in 1..Len(w.blocks) |-> UpdatePosCall(ph, w.blocks[k], rh)]
        w1 == Log(w, sets \o moves)
        w2 == Schedule(w1, "read", LongScrollOwner, "updateViewport", NoRange, FALSE, ph)
        w3 == Schedule(w2, "write", LongScrollOwner, "paneResize", NoRange, FALSE, ph)
    IN  [w |-> w3, rh |-> rh1]

\* LongScroll.updateRowSize(rows): the heights are stored, BlockSet.updateRowSize
\* calls updatePos() on every block, updateViewport() suspends on a read, and
\* a write is scheduled for the pane's height.  Returns [w, rh]
UpdateRowSize(w, rh, rows, ph) ==
    LET rh1 == SetValues(rh, rows, 1)
        sets == [k \in 1..Len(rows) |->
                    SetValueCall(ph, rows[k].index, rows[k].newSize)]
        moves == [k \in 1..Len(w.blocks) |-> UpdatePosCall(ph, w.blocks[k], rh1)]
        w1 == Log(w, sets \o moves)
        w2 == Schedule(w1, "read", LongScrollOwner, "updateViewport", NoRange, FALSE, ph)
        w3 == Schedule(w2, "write", LongScrollOwner, "paneResize", NoRange, FALSE, ph)
    IN  [w |-> w3, rh |-> rh1]

\* Block.measure with every row of the block measuring px: a write is
\* scheduled to resize the dummies of the rows that changed (one task stands
\* for the rows' tasks, queued back to back), then updateRowSize gets the
\* changes.  Returns [w, rh]
Measure(w, rh, b, px, ph) ==
    LET rows == ChangedRows(rh, b.range, px)
        w1 == Log(w, <<Call("getBoundingClientRect", ph, b.id)>>)
    IN  IF rows = <<>> THEN [w |-> w1, rh |-> rh]
        ELSE UpdateRowSize(Schedule(w1, "write", BlockOwner(b.id), "resizeDummy",
                                    NoRange, FALSE, ph),
                           rh, rows, ph)

\* Block.render after its read: a render of real doms reads the first row's
\* height and measures the rows; each measures px.  doms[0] of a block
\* without rows is undefined (a TypeError), and getRowHeight throws for a row
\* the data no longer has, after the writes of the rows before it were
\* scheduled; render's catch hands both to showPromiseError, which rethrows
RenderReadResume(px) ==
    /\ Resumes("renderRead")
    /\ LET i == BlockIndex(blocks, Job.owner.id)
           ph == phase
       IN  IF Job.isDummy \/ i = 0
           THEN /\ SetWorld(Popped)
                /\ UNCHANGED <<rowHeights, errors>>
           ELSE IF Rows(blocks[i].range) = {}
           THEN /\ SetWorld(Popped)
                /\ errors' = errors \cup {"typeError"}
                /\ UNCHANGED rowHeights
           ELSE IF blocks[i].range.bot > dataLength
           THEN LET had == ClampTo(blocks[i].range, Range(0, dataLength))
                    w1 == Log(Popped, <<Call("getBoundingClientRect", ph, Job.owner.id)>>)
                IN  /\ SetWorld(IF ChangedRows(rowHeights, had, px) = <<>> THEN w1
                                ELSE Schedule(w1, "write", Job.owner, "resizeDummy",
                                              NoRange, FALSE, ph))
                    /\ errors' = errors \cup {"outOfBounds"}
                    /\ UNCHANGED rowHeights
           ELSE LET r == Measure(Popped, rowHeights, blocks[i], px, ph)
                IN  /\ SetWorld(r.w)
                    /\ rowHeights' = r.rh
                    /\ UNCHANGED errors
    /\ UNCHANGED <<dataLength, dom, hasTarget, targetRange, leaveRange, targetRow,
                   preferredBlockSize, lastTimes, renderCalled, renderTimer, phase,
                   fulfilLog, drainsSinceTarget, capHit, repeatCall, swallowed>>
    /\ UNCHANGED <<paneHeight, rangeCall, frameVars>>

\* The writes that only style an element: measure's dummy resize and
\* updateRowSize's (disabled) pane resize
StyleWriteResume ==
    /\ (Resumes("resizeDummy") \/ Resumes("paneResize"))
    /\ microtasks' = Tail(microtasks)
    /\ UNCHANGED <<dataLength, dom, blocks, hasTarget, targetRange, leaveRange,
                   targetRow, preferredBlockSize, lastTimes, readQueue, writeQueue,
                   idleWriteQueue, renderCalled, renderTimer, phase, fulfilLog,
                   drainsSinceTarget, capHit, repeatCall, errors, swallowed>>
    /\ callLog' = IF Job.cont = "resizeDummy"
                  THEN <<Call("dummyHeight", phase, Job.owner.id)>> ELSE <<>>
    /\ UNCHANGED <<rowHeights, paneHeight, rangeCall, frameVars>>

\* A plausible slip of doPrepare: the time is noted whatever the block's size
DoPrepare_anySize(i, deltaT) ==
    /\ LET w1 == [Popped EXCEPT !.blocks[i].prepared = TRUE, !.blocks[i].dirty = TRUE]
       IN  SetWorld([w1 EXCEPT !.microtasks = Append(@, PhaseJob("prepRender", "none"))])
    /\ LET u == UpdateBlockTimes(lastTimes, preferredBlockSize, deltaT)
       IN  /\ lastTimes' = u.times
           /\ preferredBlockSize' = u.size

\* A plausible slip of prepare(): dirty is not set, so no render picks the
\* real rows up
DoPrepare_notDirty(i, deltaT) ==
    /\ LET w1 == [Popped EXCEPT !.blocks[i].prepared = TRUE]
       IN  SetWorld([w1 EXCEPT !.microtasks = Append(@, PhaseJob("prepRender", "none"))])
    /\ IF Height(blocks[i].range) = preferredBlockSize
       THEN LET u == UpdateBlockTimes(lastTimes, preferredBlockSize, deltaT)
            IN  /\ lastTimes' = u.times
                /\ preferredBlockSize' = u.size
       ELSE UNCHANGED <<lastTimes, preferredBlockSize>>

\* BlockSetImpl.doPrepare: prepare() the block, time it, note the time when
\* the block has the preferred size, then render one microtask later
DoPrepare(i, deltaT) ==
    /\ LET w1 == [Popped EXCEPT !.blocks[i].prepared = TRUE, !.blocks[i].dirty = TRUE]
       IN  SetWorld([w1 EXCEPT !.microtasks = Append(@, PhaseJob("prepRender", "none"))])
    /\ IF Height(blocks[i].range) = preferredBlockSize
       THEN LET u == UpdateBlockTimes(lastTimes, preferredBlockSize, deltaT)
            IN  /\ lastTimes' = u.times
                /\ preferredBlockSize' = u.size
       ELSE UNCHANGED <<lastTimes, preferredBlockSize>>

\* tick's idle write resumes BlockSetImpl.doWork: nothing without an
\* unprepared block near the target row or when the coin flip
\* (Math.random() > evt.loadFactor) fails, else doPrepare
DoWorkBody(shouldRun, deltaT) ==
    /\ Resumes("doWork")
    /\ LET i == IF hasTarget
                THEN GetNextUnpreparedBlock(blocks, targetRow, dataLength) ELSE 0
       IN  IF i # 0 /\ shouldRun
           THEN DoPrepare(i, deltaT)
           ELSE /\ SetWorld(Popped)
                /\ UNCHANGED <<lastTimes, preferredBlockSize>>
    /\ UNCHANGED <<dataLength, dom, hasTarget, targetRange, leaveRange, targetRow,
                   renderCalled, renderTimer, phase, fulfilLog, drainsSinceTarget,
                   capHit, repeatCall, errors, swallowed>>
    /\ UNCHANGED <<rowHeights, paneHeight, rangeCall, timer, schedEvent>>

\* doWork with the coin flip decided beforehand
DoWorkResume(shouldRun, deltaT) ==
    /\ DoWorkBody(shouldRun, deltaT)
    /\ UNCHANGED work

\* What Math.random() returns, a number of [0, 1): 0, the second of the load
\* factors above, and a number over both
Draws == {Rat(0, 1), Rat(13, 25), Rat(3, 4)}

\* const shouldRun = Math.random() > evt.loadFactor
ShouldRun(u, loadFactor) == ~RatLE(u, loadFactor)

\* doWork with the draw u of Math.random(), under the event of the doBatched
\* that runs it
DoWork(u, deltaT) ==
    /\ DoWorkBody(ShouldRun(u, schedEvent.loadFactor), deltaT)
    /\ work' = [drawn |-> u,
                found |-> IF hasTarget
                          THEN GetNextUnpreparedBlock(blocks, targetRow, dataLength)
                          ELSE 0,
                ran |-> ShouldRun(u, schedEvent.loadFactor),
                took |-> IF ShouldRun(u, schedEvent.loadFactor) THEN deltaT ELSE 0]

\* doPrepare's then(): the throttled BlockSetImpl.render
PrepRender(now) ==
    /\ microtasks # <<>>
    /\ Job.kind = "prepRender"
    /\ ThrottleChoice(now)
    /\ SetWorld(ThrottledRender(Popped, now, phase))
    /\ ThrottleState(now)
    /\ UNCHANGED <<dataLength, dom, hasTarget, targetRange, leaveRange, targetRow,
                   preferredBlockSize, lastTimes, phase, fulfilLog,
                   drainsSinceTarget, capHit, repeatCall, errors, swallowed>>
    /\ UNCHANGED <<rowHeights, paneHeight, rangeCall, frameVars>>

\* The throttle's trailing timer fires: BlockSetImpl.render runs
RenderTimerFire ==
    /\ Idle
    /\ renderTimer
    /\ SetWorld(RenderBlocks(World, 1, phase))
    /\ renderTimer' = FALSE
    /\ UNCHANGED <<dataLength, dom, hasTarget, targetRange, leaveRange, targetRow,
                   preferredBlockSize, lastTimes, renderCalled, phase, fulfilLog,
                   drainsSinceTarget, capHit, repeatCall, errors, swallowed>>
    /\ UNCHANGED <<rowHeights, paneHeight, rangeCall, frameVars>>

\* A cancelled task's promise rejects with TaskCancelledError: render's
\* catch and the .catch(showPromiseError) chains swallow it, any other
\* continuation lets it propagate
CancelledResume ==
    /\ microtasks # <<>>
    /\ Job.kind = "settle"
    /\ ~Job.ok
    /\ microtasks' = Tail(microtasks)
    /\ IF CatchesCancel(Job.cont)
       THEN /\ swallowed' = swallowed \cup {Job.cont}
            /\ UNCHANGED errors
       ELSE /\ errors' = errors \cup {"cancelled"}
            /\ UNCHANGED swallowed
    /\ UNCHANGED <<dataLength, dom, blocks, hasTarget, targetRange, leaveRange,
                   targetRow, preferredBlockSize, lastTimes, readQueue, writeQueue,
                   idleWriteQueue, renderCalled, renderTimer, phase, fulfilLog,
                   drainsSinceTarget, capHit, repeatCall>>
    /\ callLog' = <<>>
    /\ UNCHANGED <<rowHeights, paneHeight, rangeCall, frameVars>>

\* ------------------------------------------------------------ the pipeline
\* One pane over a short data source that does not change: scrolls, frames,
\* the block set following the viewport, blocks prepared, rendered and
\* measured, the render throttled.  doWork's coin flip succeeds whenever a
\* block waits to be prepared, and a prepare() takes 5 ms.
InitPipeline == InitWith({SmallLength})

Next ==
    \/ MakeDom
    \/ OnScroll
    \/ Tick
    \/ ExecDone
    \/ BatchNext
    \/ RenderTimerFire
    \/ \E rows \in ViewportRows(dataLength) : \E now \in ThrottleNow :
           UpdateViewportResume(rows, now)
    \/ EnsureCoversResume
    \/ BlockAppendResume
    \/ RenderWriteResume
    \/ \E px \in MeasuredHeights : RenderReadResume(px)
    \/ StyleWriteResume
    \/ DoWorkResume(TRUE, 5)
    \/ \E now \in ThrottleNow : PrepRender(now)
    \/ CancelledResume

Spec == InitPipeline /\ [][Next]_vars

\* ------------------------------------------------------------ the cover
\* The block set under every data length, with the host changing the data
\* between frames.  Blocks are rendered as placeholders only: doWork's coin
\* flip fails, so no block is prepared and the block size stays the initial
\* one.
NextCover ==
    \/ MakeDom
    \/ OnScroll
    \/ \E n \in DataLengths : OnDataChange(n)
    \/ OnResize
    \/ Tick
    \/ ExecDone
    \/ BatchNext
    \/ \E rows \in ViewportRows(dataLength) : UpdateViewportResume(rows, TRUE)
    \/ EnsureCoversResume
    \/ BlockAppendResume
    \/ RenderWriteResume
    \/ RenderReadResume(defaultRowHeight)
    \/ DoWorkResume(FALSE, 5)
    \/ CancelledResume

SpecCover == Init /\ [][NextCover]_vars

\* --------------------------------------------------------- the block sizer
\* The time one prepare() takes, in ms: under or over preferredBlockTime
Durations == {5, 20}

\* doPrepare has timed the prepare() of a block of the preferred size and
\* calls updateBlockTimes(deltaT)
UpdateBlockTimesCall(deltaT) ==
    /\ LET u == UpdateBlockTimes(lastTimes, preferredBlockSize, deltaT)
       IN  /\ lastTimes' = u.times
           /\ preferredBlockSize' = u.size
    /\ UNCHANGED <<dataLength, dom, blocks, hasTarget, targetRange, leaveRange,
                   targetRow, readQueue, writeQueue, idleWriteQueue, microtasks,
                   renderCalled, renderTimer, phase, fulfilLog, drainsSinceTarget,
                   capHit, repeatCall, errors, swallowed>>
    /\ callLog' = <<>>
    /\ UNCHANGED <<rowHeights, paneHeight, rangeCall, frameVars>>

\* The block sizer alone, fed any sequence of prepare durations
NextSizer == \E deltaT \in Durations : UpdateBlockTimesCall(deltaT)

SpecSizer == InitPipeline /\ [][NextSizer]_vars

\* ------------------------------------------------------ preparing
\* The pipeline with doWork's coin flip: frames under either load factor,
\* every draw, a prepare() of 5 ms; rows measure the default height, and the
\* throttled render finds its 10 ms passed
NextWork ==
    \/ MakeDom
    \/ OnScroll
    \/ \E lf \in LoadFactors : TickUnder(lf)
    \/ ExecDone
    \/ BatchNext
    \/ \E rows \in ViewportRows(dataLength) : UpdateViewportResume(rows, TRUE)
    \/ EnsureCoversResume
    \/ BlockAppendResume
    \/ RenderWriteResume
    \/ RenderReadResume(defaultRowHeight)
    \/ \E u \in Draws : DoWork(u, 5)
    \/ PrepRender(TRUE)
    \/ CancelledResume

SpecWork == InitPipeline /\ [][NextWork]_vars

\* ------------------------------------------------------ the block times
\* A data source long enough for five blocks of the initial size and more
MidLength == 100

\* The pipeline over MidLength rows with the buffer region over all of them,
\* so that block after block is created and prepared: frames without load,
\* the coin flip passing, a prepare() of either duration.  No block is freed
\* and no row changes its height, so nothing is cancelled or resized
NextTimes ==
    \/ MakeDom
    \/ OnScroll
    \/ TickUnder(GetLoadFactor(<<16>>))
    \/ ExecDone
    \/ BatchNext
    \/ UpdateViewportResume(<<0, dataLength - 1>>, TRUE)
    \/ EnsureCoversResume
    \/ BlockAppendResume
    \/ RenderWriteResume
    \/ RenderReadResume(defaultRowHeight)
    \/ \E deltaT \in Durations : DoWork(Rat(3, 4), deltaT)
    \/ PrepRender(TRUE)

SpecTimes == InitWith({MidLength}) /\ [][NextTimes]_vars

\* --------------------------------------------------------- the frames
\* The frame timer of a LongScroll whose makeDom has not been called, and of
\* any other callback: frames of either duration, the host starting and
\* stopping the timer between them, the drain each LongScroll.tick starts
NextTimer ==
    \/ \E elapsed \in FrameTimes : \E cb \in Callbacks : FrameTick(elapsed, cb)
    \/ TimerStart
    \/ TimerStop
    \/ ExecDone
    \/ BatchNext
    \/ DoWorkResume(TRUE, 5)

SpecTimer == InitPipeline /\ [][NextTimer]_vars

\* ======================================================= the scheduler
\* The place of a queue in doBatched's order
PhaseRank(q) ==
    CASE q = "read" -> 1
      [] q = "write" -> 2
      [] q = "idle" -> 3

\* C1: within one doBatched call every task fulfilled from the read queue is
\* fulfilled before any task from the write queue, and every write-queue task
\* before any idle-write-queue task: the tasks the call has run so far, in the
\* order it ran them, never step back to an earlier queue.
C1_ReadThenWriteThenIdle ==
    \A i, j \in 1..Len(fulfilLog) :
        i < j => PhaseRank(fulfilLog[i].q) <= PhaseRank(fulfilLog[j].q)

\* A doBatched call that has run tasks of all three queues
C1_AllThreePhasesRan ==
    /\ \E i \in 1..Len(fulfilLog) : fulfilLog[i].q = "read"
    /\ \E i \in 1..Len(fulfilLog) : fulfilLog[i].q = "write"
    /\ \E i \in 1..Len(fulfilLog) : fulfilLog[i].q = "idle"

\* C2: within a phase tasks are fulfilled in the order they were enqueued: of
\* two tasks one doBatched call ran from the same queue, the one it ran first
\* was scheduled first.
C2_FifoWithinPhase ==
    \A i, j \in 1..Len(fulfilLog) :
        (i < j /\ fulfilLog[i].q = fulfilLog[j].q)
            => fulfilLog[i].task.stamp < fulfilLog[j].task.stamp

\* A phase ran two tasks one after the other and skipped a cancelled task
\* that was queued between them
C2_SkippedBetweenTwoRuns ==
    \E i \in 1..(Len(fulfilLog) - 1) :
        /\ fulfilLog[i].q = fulfilLog[i + 1].q
        /\ fulfilLog[i + 1].task.stamp > fulfilLog[i].task.stamp + 1

\* C3, as the specification states it: a task scheduled onto phase P by a
\* continuation resumed in phase P of a doBatched call is fulfilled within
\* that same call, so none is still pending when the call has ended.
C3_SamePhaseTaskRunsInSameBatch ==
    phase = "none" =>
        \A q \in {"read", "write", "idle"} :
            \A i \in 1..Len(QueueOf(World, q)) :
                ~(QueueOf(World, q)[i].state = "Pending" /\ QueueOf(World, q)[i].born = q)

\* The owners of the blocks a step frees: free() calls cancelJobs(this)
FreedOwners(before, after) ==
    {BlockOwner(before[i].id) : i \in 1..Len(before)}
        \ {BlockOwner(after[i].id) : i \in 1..Len(after)}

\* C4: cancelJobs(owner) moves every Pending task of the owner, in all three
\* queues, to Rejected and rejects its promise with the TaskCancelledError;
\* the owner's tasks that were already fulfilled (their continuations wait in
\* the microtask queue) and every task of another owner stay as they were.
\* Checked on every step that frees blocks.
C4_CancelJobsRejectsOwnersPending ==
    [][LET freed == FreedOwners(blocks, blocks')
           right(old, new) ==
               /\ Len(new) >= Len(old)
               /\ \A i \in 1..Len(old) :
                      IF old[i].owner \in freed /\ old[i].state = "Pending"
                      THEN /\ new[i] = [old[i] EXCEPT !.state = "Rejected"]
                           /\ \E k \in Len(microtasks)..Len(microtasks') :
                                  microtasks'[k] = SettleJob(old[i], FALSE)
                      ELSE new[i] = old[i]
       IN  freed # {} =>
               /\ right(readQueue, readQueue')
               /\ right(writeQueue, writeQueue')
               /\ right(idleWriteQueue, idleWriteQueue')
               /\ SubSeq(microtasks', 1, Len(microtasks) - 1) = Tail(microtasks)]_vars

\* A freed block's task was rejected where it stood, between a pending task of
\* another owner and a fulfilled one's waiting continuation
C4_RejectedBesidePending ==
    /\ \E i \in 1..Len(idleWriteQueue) : \E j \in 1..Len(idleWriteQueue) :
           /\ idleWriteQueue[i].state = "Rejected"
           /\ idleWriteQueue[j].state = "Pending"
           /\ idleWriteQueue[j].owner # idleWriteQueue[i].owner
    /\ \E k \in 1..Len(microtasks) :
           microtasks[k].kind = "settle" /\ ~microtasks[k].ok

\* C5: a cancelled task is skipped by every later drain and never fulfilled;
\* a render() whose block is freed while it is suspended on a scheduled task
\* ends with the task-cancelled failure swallowed, no cancellation propagates
\* out of a continuation, and the drain in progress goes on (its own
\* continuation is still queued).
C5_CancelledSkippedAndSwallowed ==
    /\ \A i \in 1..Len(fulfilLog) : fulfilLog[i].task.state = "Pending"
    /\ "cancelled" \notin errors
    /\ phase # "none" =>
           \E k \in 1..Len(microtasks) : microtasks[k].kind \in {"execDone", "batchNext"}

\* A render suspended on its idle write was cancelled and swallowed it, and
\* the idle phase that followed skipped the cancelled task
C5_RenderCancelledThenSkipped ==
    /\ "renderWrite" \in swallowed
    /\ phase = "idle"
    /\ \E i \in 1..Len(fulfilLog) : fulfilLog[i].q = "idle" /\ fulfilLog[i].task.stamp > 1

\* ======================================================= the block set
\* The union of the blocks' ranges contains every row of r
Covers(bs, r) ==
    \A row \in r.top..(r.bot - 1) :
        \E k \in 1..Len(bs) : bs[k].range.top <= row /\ row < bs[k].range.bot

\* The target range lies within the rows [0, N) of the data source
TargetInData == targetRange.top >= 0 /\ targetRange.bot <= dataLength

\* The block list as the claims compare it: which Block objects, over which rows
BlockList(bs) == [k \in 1..Len(bs) |-> <<bs[k].id, bs[k].range>>]

\* The running microtask is updateViewport's continuation, which calls setTarget
SetTargetStep == Resumes("updateViewport")

\* The running microtask is the ensureCovers continuation of the latest
\* setTarget call: no other ensureCovers waits behind it
LastCoverStep ==
    /\ Resumes("ensureCovers")
    /\ \A k \in 2..Len(microtasks) : microtasks[k].cont # "ensureCovers"
    /\ \A k \in 1..Len(writeQueue) : writeQueue[k].cont # "ensureCovers"

\* The running microtask is the ensureCovers continuation of a repeated
\* setTarget call: it captured the target both calls set
RepeatedCoverStep ==
    /\ LastCoverStep
    /\ repeatCall.same
    /\ Job.targR = targetRange

\* C6: in every reachable state the live blocks are sorted by range and
\* contiguous, without overlap or gap: each block ends where the next begins.
C6_BlocksContiguous ==
    \A k \in 1..(Len(blocks) - 1) :
        /\ blocks[k].range.bot = blocks[k + 1].range.top
        /\ blocks[k].range.top <= blocks[k + 1].range.top

\* Blocks were added on both sides of a first block placed mid-list
C6_GrownOnBothSides ==
    /\ Len(blocks) >= 3
    /\ \E k \in 2..(Len(blocks) - 1) :
           blocks[k].id < blocks[k - 1].id /\ blocks[k].id < blocks[k + 1].id

\* C7, as the specification states it: when setTarget returns, the union of
\* the live blocks' ranges contains targetRange.  The 10-iteration cap it
\* allows for has no part at that point: no ensureCovers of the call has run
\* its loop yet.
C7_CoveredWhenSetTargetReturns ==
    [][SetTargetStep => Covers(blocks', targetRange')]_vars

\* C7, amended: when setTarget returns, either the blocks cover targetRange
\* or an ensureCovers write task for that range is the last task of the write
\* queue; and when the ensureCovers continuation of the latest setTarget has
\* run, the blocks cover targetRange, unless an ensureCovers used up its 10
\* iterations or the target is not within [0, N).
C7_CoveredOnceEnsureCoversRan ==
    [][/\ SetTargetStep =>
              \/ Covers(blocks', targetRange')
              \/ /\ writeQueue' # <<>>
                 /\ writeQueue'[Len(writeQueue')].cont = "ensureCovers"
                 /\ writeQueue'[Len(writeQueue')].state = "Pending"
                 /\ writeQueue'[Len(writeQueue')].targR = targetRange'
       /\ (LastCoverStep /\ ~capHit' /\ TargetInData) => Covers(blocks', targetRange)
      ]_vars

\* An ensureCovers continuation has just built several blocks that cover a
\* target of more than one row
C7_CoverBuiltInWritePhase ==
    /\ phase = "write"
    /\ hasTarget /\ ~capHit /\ TargetInData
    /\ Height(targetRange) > 1
    /\ Len(blocks) >= 2
    /\ Covers(blocks, targetRange)
    /\ \E k \in 1..Len(writeQueue) :
           writeQueue[k].cont = "blockAppend" /\ writeQueue[k].born = "write"

\* C8, as the specification states it: once two doBatched calls have ended
\* after the last setTarget, the blocks cover the last targetRange.
C8_CoveredAfterTwoDrains ==
    (hasTarget /\ drainsSinceTarget = 2) => Covers(blocks, targetRange)

\* C8, amended: once two doBatched calls have ended after the last setTarget,
\* the blocks cover the last targetRange, provided no ensureCovers since that
\* setTarget used up its 10 iterations and the target is within [0, N).
C8_CoveredAfterTwoDrainsUnlessCapped ==
    (hasTarget /\ drainsSinceTarget = 2 /\ ~capHit /\ TargetInData)
        => Covers(blocks, targetRange)

\* Two drains after a setTarget whose ensureCovers had to free the old blocks
\* and build new ones: the target is covered
C8_SettledAfterTwoDrains ==
    /\ hasTarget /\ drainsSinceTarget = 2 /\ ~capHit /\ TargetInData
    /\ phase = "none"
    /\ dataLength = LargeLength
    /\ targetRange.top > 0
    /\ Len(blocks) >= 1
    /\ blocks[1].id > 0
    /\ Covers(blocks, targetRange)

\* C9, as the specification states it: every live block's range is a
\* non-empty subset of [0, N), N the current length of the data source.
C9_BlocksWithinData ==
    \A k \in 1..Len(blocks) :
        /\ blocks[k].range.top >= 0
        /\ blocks[k].range.bot <= dataLength
        /\ blocks[k].range.top < blocks[k].range.bot

\* C10, as the specification states it: a setTarget with the range and focus
\* of the setTarget before it creates and frees no block.
C10_RepeatedSetTargetChangesNothing ==
    [][RepeatedCoverStep => BlockList(blocks') = BlockList(blocks)]_vars

\* C10, amended: a setTarget with the range and focus of the setTarget before
\* it creates and frees no block, provided no ensureCovers of the earlier call
\* used up its 10 iterations.
C10_RepeatedSetTargetUnlessCapped ==
    [][(RepeatedCoverStep /\ ~repeatCall.prevCap /\ ~capHit)
           => BlockList(blocks') = BlockList(blocks)]_vars

\* The ensureCovers of a repeated setTarget is about to run over the blocks
\* the first call's ensureCovers has just built
C10_SecondCoverAboutToRun ==
    /\ RepeatedCoverStep
    /\ ~repeatCall.prevCap /\ ~capHit
    /\ Len(blocks) >= 2
    /\ \E k \in 1..Len(writeQueue) :
           writeQueue[k].cont = "blockAppend" /\ writeQueue[k].born = "write"

\* ======================================================= the block sizer
\* C11: preferredBlockSize never increases over any sequence of operations
\* and is never below minBlockSize.
C11_BlockSizeOnlyShrinksToMin ==
    [][/\ preferredBlockSize' <= preferredBlockSize
       /\ preferredBlockSize' >= minBlockSize]_vars

\* The size has shrunk all the way and another round of slow prepares is
\* about to end
C11_AtMinAndSlowAgain ==
    /\ preferredBlockSize = minBlockSize
    /\ lastTimes = <<20, 20, 20, 20>>

\* The fifth of five prepare durations of 20 ms is being fed
FifthSlowStep == lastTimes = <<20, 20, 20, 20>> /\ lastTimes' = <<>>

\* C12, as the specification states it: fed five durations of 20 ms at a
\* time, preferredBlockSize goes 19, 15, 12, 10, 8, 7, 6, 5 and stays at 5.
C12_ShrinksAsSpecified ==
    [][FifthSlowStep =>
           <<preferredBlockSize, preferredBlockSize'>> \in
               {<<19, 15>>, <<15, 12>>, <<12, 10>>, <<10, 8>>, <<8, 7>>,
                <<7, 6>>, <<6, 5>>, <<5, 5>>}]_vars

\* C12, amended: fed five durations of 20 ms at a time, preferredBlockSize
\* goes 19, 15, 12, 9, 7, 5 and stays at 5; it changes on no other step.
C12_ShrinksByCeilOfFifth ==
    [][/\ FifthSlowStep =>
              <<preferredBlockSize, preferredBlockSize'>> \in
                  {<<19, 15>>, <<15, 12>>, <<12, 9>>, <<9, 7>>, <<7, 5>>, <<5, 5>>}
       /\ lastTimes' # <<>> => preferredBlockSize' = preferredBlockSize]_vars

\* Four slow prepares at size 9, the first size the sequences differ at
C12_FourSlowAtNine ==
    /\ preferredBlockSize = 9
    /\ lastTimes = <<20, 20, 20, 20>>

\* ------------------------------------------------ claims: layout discipline
\* The calls that read layout (recalcViewport reads scrollTop and clientHeight
\* together) and the calls that change the document
LayoutReads == {"scrollTop", "getBoundingClientRect"}

DomMutations == {"appendBlock", "setContent", "updatePos", "dummyHeight",
                 "paneHeight", "domDispose"}

\* C13: every layout read is made in a continuation of a read-phase task, and
\* every change of the document in a continuation of a write-phase or
\* idle-write-phase task.
C13_ReadsInReadPhaseMutationsInWritePhase ==
    \A k \in 1..Len(callLog) :
        /\ callLog[k].op \in LayoutReads => callLog[k].ph = "read"
        /\ callLog[k].op \in DomMutations => callLog[k].ph \in {"write", "idle"}

\* ----------------------------------------------------- claims: Block.free
\* What free() gives up: the rows' elements to the data source, the div
ReleaseCalls == {"freeDummyDom", "freeDom", "domDispose"}

\* The continuations of Block.render's awaits
RenderConts == {"renderWrite", "renderRead"}

\* A fulfilled continuation of render is waiting to run for a block that is
\* no longer in the block set
RenderOfFreedBlockWaits ==
    \E m \in 1..Len(microtasks) :
        /\ microtasks[m].kind = "settle"
        /\ microtasks[m].ok
        /\ microtasks[m].owner.kind = "block"
        /\ microtasks[m].cont \in RenderConts
        /\ BlockIndex(blocks, microtasks[m].owner.id) = 0

\* C14: free() calls cancelJobs on the block before it releases any element of
\* the block or disposes its div, and no continuation of render runs for a
\* freed block.
C14_CancelJobsBeforeAnyRelease ==
    /\ \A k \in 1..Len(callLog) :
           callLog[k].op \in ReleaseCalls =>
               \E j \in 1..(k - 1) : /\ callLog[j].op = "cancelJobs"
                                     /\ callLog[j].id = callLog[k].id
    /\ ~RenderOfFreedBlockWaits

\* ------------------------------------------------- claims: placeholders
\* C15: every block in the block set holds exactly one placeholder element
\* for each row of its range, from its construction on.
C15_OneDummyDomPerRow ==
    \A k \in 1..Len(blocks) : blocks[k].dummyDoms = Height(blocks[k].range)

\* A block with rows has been prepared and shows its real rows
C15_PreparedBlockShowsRealRows ==
    \E k \in 1..Len(blocks) :
        /\ Height(blocks[k].range) > 0
        /\ blocks[k].prepared
        /\ blocks[k].content = "real"

\* ------------------------------------------------ claims: row heights
\* The setValue calls of a call log: the changes updateRowSize was given
SetValueCalls(log) == SelectSeq(log, LAMBDA c : c.op = "setValue")

\* The sum over the changes of (newSize - the height rh stores for the row)
RECURSIVE SumOfDeltas(_, _, _)
SumOfDeltas(changes, rh, k) ==
    IF k > Len(changes) THEN 0
    ELSE (changes[k].size - GetValue(rh, changes[k].row))
         + SumOfDeltas(changes, rh, k + 1)

\* C16: updateRowSize(changes) leaves the total of the row heights at the total
\* before plus the sum over the changes of (newSize - stored height), and
\* leaves the height of every row the changes do not name as it was.
C16_TotalMovesBySumOfDeltas ==
    [][LET changes == SetValueCalls(callLog')
       IN  changes # <<>> =>
             /\ DOMAIN rowHeights' = DOMAIN rowHeights
             /\ GetTotal(rowHeights') =
                    GetTotal(rowHeights) + SumOfDeltas(changes, rowHeights, 1)
             /\ \A i \in DOMAIN rowHeights :
                    (\A k \in 1..Len(changes) : changes[k].row # i)
                        => rowHeights'[i] = rowHeights[i]]_vars

\* updateRowSize has just taken rows back to 30 px while rows it did not name
\* are stored as 40 px
C16_SomeRowsBackToDefault ==
    /\ \E k \in 1..Len(callLog) :
          callLog[k].op = "setValue" /\ callLog[k].size = defaultRowHeight
    /\ \E i \in DOMAIN rowHeights : rowHeights[i] = 40

\* ------------------------------------------------- claims: pane height
\* The write updateRowSize scheduled for the pane's height has not run yet
PaneResizeOutstanding ==
    \/ \E k \in 1..Len(writeQueue) : writeQueue[k].cont = "paneResize"
    \/ \E m \in 1..Len(microtasks) : microtasks[m].cont = "paneResize"

\* C17: once updateRowSize and the write it schedules have run, the height
\* declared for the scroll pane is the total of the row heights.
C17_PaneHeightIsTotalOnceCommitted ==
    (dom /\ ~PaneResizeOutstanding) => paneHeight = GetTotal(rowHeights)

\* ------------------------------------------------------- calls on Range
\* Range is used for rows and for pixels, whose ends may be fractions: the
\* numbers of the calls below are counted in halves, from -MaxCoord halves to
\* MaxCoord halves, and One is the number 1
MaxCoord == 2

One == 2

Coords == (0 - MaxCoord)..MaxCoord

\* A JavaScript number: NaN, or the number of v halves
NaN == [isNaN |-> TRUE, halves |-> 0]

Num(v) == [isNaN |-> FALSE, halves |-> v]

JsNumbers == {NaN} \cup {Num(v) : v \in Coords}

\* t > b on JavaScript numbers: false when either is NaN
JsGreater(t, b) == ~t.isNaN /\ ~b.isNaN /\ t.halves > b.halves

\* A plausible slip of the constructor: the NaN test is missing
NewRange_noNaNTest(t, b) ==
    IF JsGreater(t, b) THEN [thrown |-> "top > bottom", made |-> NoRange]
    ELSE [thrown |-> "none", made |-> Range(t.halves, b.halves)]

\* new Range(t, b): the error thrown ("none": no error) and the Range made
NewRange(t, b) ==
    IF JsGreater(t, b) THEN [thrown |-> "top > bottom", made |-> NoRange]
    ELSE IF t.isNaN \/ b.isNaN THEN [thrown |-> "NaN range", made |-> NoRange]
    ELSE [thrown |-> "none", made |-> Range(t.halves, b.halves)]

\* The Range values there are: those the constructor yields
Ranges ==
    {c.made : c \in {n \in {NewRange(t, b) : t, b \in JsNumbers} : n.thrown = "none"}}

\* Range.contains(r: Range) on numbers counted in halves
ContainsRangeOfHalves(r, a) ==
    IF Height(a) = 0 THEN TRUE
    ELSE ContainsNum(r, a.top) /\ ContainsNum(r, a.bot - One)

\* A call was made on Range values (recv: the Range it is made on, arg and
\* arg2: its arguments); nothing else moves
RangeCalled(call) ==
    /\ rangeCall' = call
    /\ callLog' = <<>>
    /\ UNCHANGED <<dataLength, dom, blocks, hasTarget, targetRange, leaveRange,
                   targetRow, preferredBlockSize, lastTimes, readQueue, writeQueue,
                   idleWriteQueue, microtasks, renderCalled, renderTimer, phase,
                   fulfilLog, drainsSinceTarget, capHit, repeatCall, errors,
                   swallowed, rowHeights, paneHeight, frameVars>>

NewRangeCall(t, b) ==
    RangeCalled([op |-> "new", arg |-> t, arg2 |-> b, result |-> NewRange(t, b)])

\* this.clampTo(other): the clamping is done on a new Range, `this` is not
\* assigned
ClampToCall(this, other) ==
    RangeCalled([op |-> "clampTo", arg |-> other, recv |-> this,
                 out |-> ClampTo(this, other), recvAfter |-> this])

ContainsNumCall(this, i) ==
    RangeCalled([op |-> "containsNum", arg |-> i, recv |-> this,
                 out |-> ContainsNum(this, i)])

ContainsRangeCall(this, a) ==
    RangeCalled([op |-> "containsRange", arg |-> a, recv |-> this,
                 out |-> ContainsRangeOfHalves(this, a)])

\* Range.clampNum(i) on numbers counted in halves
ClampNumOfHalves(r, i) ==
    IF i < r.top THEN r.top
    ELSE IF i > r.bot THEN r.bot - One
    ELSE i

ClampNumCall(this, i) ==
    RangeCalled([op |-> "clampNum", arg |-> i, recv |-> this,
                 out |-> ClampNumOfHalves(this, i)])

NextRange ==
    \/ \E t, b \in JsNumbers : NewRangeCall(t, b)
    \/ \E this, other \in Ranges : ClampToCall(this, other)
    \/ \E this \in Ranges : \E i \in Coords : ContainsNumCall(this, i)
    \/ \E this, a \in Ranges : ContainsRangeCall(this, a)
    \/ \E this \in Ranges : \E i \in Coords : ClampNumCall(this, i)

SpecRange == InitPipeline /\ [][NextRange]_vars

\* ------------------------------------------------------ before makeDom
\* LongScroll.assertInitialized: the error it throws, "none" with a dom
AssertInitialized ==
    IF ~dom THEN "LongScroll dom not initialized" ELSE "none"

\* Calls made on a LongScroll without a dom.  The viewport getter and
\* updateRowSize begin with assertInitialized; so does updateViewport, an
\* async function, whose promise is then rejected with the error
CalledBeforeDom(op) ==
    /\ Idle
    /\ ~dom
    /\ RangeCalled([op |-> op, thrown |-> AssertInitialized])

ViewportBeforeDom == CalledBeforeDom("viewport")

UpdateViewportBeforeDom == CalledBeforeDom("updateViewport")

UpdateRowSizeBeforeDom == CalledBeforeDom("updateRowSize")

\* A LongScroll of any data length whose makeDom is not called: scrolls,
\* resizes, changes of the data, frames, and the calls above
NextBeforeDom ==
    \/ OnScroll
    \/ OnResize
    \/ \E n \in DataLengths : OnDataChange(n)
    \/ \E elapsed \in FrameTimes : FrameTick(elapsed, "tick")
    \/ ExecDone
    \/ BatchNext
    \/ DoWorkResume(TRUE, 5)
    \/ ViewportBeforeDom
    \/ UpdateViewportBeforeDom
    \/ UpdateRowSizeBeforeDom

SpecBeforeDom == Init /\ [][NextBeforeDom]_vars

\* ------------------------------------------------- calls on row accessors
\* The data lengths and the pixel positions the row accessors are asked about:
\* no rows or FewRows rows, each 30 or 40 px high; one pixel before, at and
\* after the top of every row and the end of the pane
FewRows == 3

PxChoices(rh) ==
    {GetSumTo(rh, i) + d : i \in 0..Cardinality(DOMAIN rh), d \in {-1, 0, 1}}

\* LongScroll.getRowAtPx(top): the error thrown ("none": no error) and the row
GetRowAtPx(rh, N, top) ==
    IF top < 0 THEN [thrown |-> "Pixel pos out of bounds", out |-> -1]
    ELSE IF GetIndex(rh, top) = N
         THEN [thrown |-> "Pixel pos out of bounds", out |-> -1]
         ELSE [thrown |-> "none", out |-> GetIndex(rh, top)]

\* A plausible slip of getClampedRowAtPx: the index past the last row passes
GetClampedRowAtPx_pastEnd(rh, N, top) ==
    IF top < 0 THEN 0
    ELSE IF GetIndex(rh, top) > N THEN N - 1
    ELSE GetIndex(rh, top)

\* LongScroll.getClampedRowAtPx(top)
GetClampedRowAtPx(rh, N, top) ==
    IF top < 0 THEN 0
    ELSE IF GetIndex(rh, top) >= N THEN N - 1
    ELSE GetIndex(rh, top)

GetRowAtPxCall(top) ==
    LET res == GetRowAtPx(rowHeights, dataLength, top)
    IN  RangeCalled([op |-> "getRowAtPx", thrown |-> res.thrown, arg |-> top,
                     out |-> res.out])

GetClampedRowAtPxCall(top) ==
    RangeCalled([op |-> "getClampedRowAtPx", thrown |-> "none", arg |-> top,
                 out |-> GetClampedRowAtPx(rowHeights, dataLength, top)])

InitRows == InitWithHeights({0, FewRows}, MeasuredHeights)

NextRows ==
    \/ \E top \in PxChoices(rowHeights) : GetRowAtPxCall(top)
    \/ \E top \in PxChoices(rowHeights) : GetClampedRowAtPxCall(top)

SpecRows == InitRows /\ [][NextRows]_vars

\* ----------------------------------------------------- claims: Range
\* Some number lies in both ranges
Intersect(r, other) ==
    /\ r.top < r.bot
    /\ other.top < other.bot
    /\ r.top < other.bot
    /\ other.top < r.bot

\* a lies within the ends of b
WithinEnds(a, b) == b.top <= a.top /\ a.bot <= b.bot

\* Every number of a is a number of b: so it is for every empty a, as
\* b.contains(a) has it
ContainedIn(a, b) == Height(a) = 0 \/ WithinEnds(a, b)

\* C18 as stated: r.clampTo(other) is contained in r and in other when they
\* intersect, is empty when they are disjoint, equals r when other contains
\* r, and leaves r as it was.
C18_ClampToEqualsContainedRange ==
    rangeCall.op = "clampTo" =>
        LET r == rangeCall.recv
            other == rangeCall.arg
        IN  /\ Intersect(r, other) =>
                  ContainedIn(rangeCall.out, r) /\ ContainedIn(rangeCall.out, other)
            /\ ~Intersect(r, other) => Height(rangeCall.out) = 0
            /\ ContainedIn(r, other) => rangeCall.out = r
            /\ rangeCall.recvAfter = r

\* C18, amended: r.clampTo(other) is contained in r and in other when they
\* intersect, is empty when they are disjoint, equals r when r lies within
\* the ends of other (so r.clampTo(r) = r), is Range(other.bot, other.bot) for
\* an empty r above other.bot, and leaves r as it was.
C18_ClampToEqualsRangeWithinEnds ==
    rangeCall.op = "clampTo" =>
        LET r == rangeCall.recv
            other == rangeCall.arg
        IN  /\ Intersect(r, other) =>
                  ContainedIn(rangeCall.out, r) /\ ContainedIn(rangeCall.out, other)
            /\ ~Intersect(r, other) => Height(rangeCall.out) = 0
            /\ WithinEnds(r, other) => rangeCall.out = r
            /\ other = r => rangeCall.out = r
            /\ (Height(r) = 0 /\ r.top > other.bot) =>
                  rangeCall.out = Range(other.bot, other.bot)
            /\ rangeCall.recvAfter = r

\* clampTo was called on two ranges that overlap in part
C18_ClampedOnOneSide ==
    /\ rangeCall.op = "clampTo"
    /\ Intersect(rangeCall.recv, rangeCall.arg)
    /\ rangeCall.out # rangeCall.recv
    /\ rangeCall.out # rangeCall.arg

\* x halves are a whole number
IsWhole(x) == x % One = 0

HasWholeEnds(r) == IsWhole(r.top) /\ IsWhole(r.bot)

C20_ConstructorRejectsInvertedAndNaN ==
    /\ rangeCall.op = "new" =>
          LET t == rangeCall.arg
              b == rangeCall.arg2
              res == rangeCall.result
          IN  IF t.isNaN \/ b.isNaN \/ t.halves > b.halves
              THEN res.thrown # "none"
              ELSE /\ res.thrown = "none"
                   /\ res.made.top = t.halves
                   /\ res.made.bot = b.halves
                   /\ Height(res.made) = b.halves - t.halves
                   /\ res.made.top <= res.made.bot
    /\ rangeCall.op = "clampTo" => rangeCall.out.top <= rangeCall.out.bot

\* The constructor was given NaN for the top and threw
C20_NaNTopRejected ==
    /\ rangeCall.op = "new"
    /\ rangeCall.arg.isNaN
    /\ ~rangeCall.arg2.isNaN
    /\ rangeCall.result.thrown = "NaN range"

\* C21: for a non-empty range with whole ends and a whole i, clampNum(i) is
\* top when i < top, bot - 1 when i >= bot and i otherwise, so that it lies
\* in [top, bot - 1].
C21_ClampNumWithinRange ==
    (/\ rangeCall.op = "clampNum"
     /\ Height(rangeCall.recv) > 0
     /\ HasWholeEnds(rangeCall.recv)
     /\ IsWhole(rangeCall.arg)) =>
        LET r == rangeCall.recv
            i == rangeCall.arg
        IN  /\ rangeCall.out = (IF i < r.top THEN r.top
                                ELSE IF i >= r.bot THEN r.bot - One
                                ELSE i)
            /\ r.top <= rangeCall.out
            /\ rangeCall.out <= r.bot - One

\* -------------------------------------------- claims: row accessors
\* px lies on row i: getRowTop(i) <= px < getRowTop(i + 1)
OnRow(px, i) ==
    /\ GetSumTo(rowHeights, i) <= px
    /\ px < GetSumTo(rowHeights, i + 1)

\* What C22 says of the two accessors, but for the bounds of the clamped row
RowAtPxAsStated ==
    /\ rangeCall.op = "getRowAtPx" =>
          IF rangeCall.arg < 0 \/ rangeCall.arg >= GetTotal(rowHeights)
          THEN rangeCall.thrown # "none"
          ELSE /\ rangeCall.thrown = "none"
               /\ rangeCall.out \in 0..(dataLength - 1)
               /\ OnRow(rangeCall.arg, rangeCall.out)
    /\ rangeCall.op = "getClampedRowAtPx" =>
          /\ rangeCall.thrown = "none"
          /\ rangeCall.out =
                (IF rangeCall.arg < 0 THEN 0
                 ELSE IF rangeCall.arg >= GetTotal(rowHeights) THEN dataLength - 1
                 ELSE GetRowAtPx(rowHeights, dataLength, rangeCall.arg).out)

\* C22 as stated: getRowAtPx(px) throws for px < 0 and for px at or past the
\* total, and else returns the row px lies on; getClampedRowAtPx(px) never
\* throws, returns 0 for px < 0, N - 1 for px past the end and the row of
\* getRowAtPx otherwise, so that its result is always in [0, N - 1].
C22_ClampedRowAlwaysWithinData ==
    /\ RowAtPxAsStated
    /\ rangeCall.op = "getClampedRowAtPx" =>
          (0 <= rangeCall.out /\ rangeCall.out <= dataLength - 1)

\* C22, amended: as stated, the result of getClampedRowAtPx being in
\* [0, N - 1] when there is at least one row; with no rows it is 0 for px < 0
\* and -1 otherwise.
C22_ClampedRowWithinDataUnlessEmpty ==
    /\ RowAtPxAsStated
    /\ rangeCall.op = "getClampedRowAtPx" =>
          /\ dataLength >= 1 =>
                (0 <= rangeCall.out /\ rangeCall.out <= dataLength - 1)
          /\ dataLength = 0 =>
                rangeCall.out = (IF rangeCall.arg < 0 THEN 0 ELSE -1)

\* getClampedRowAtPx was asked about a pixel past the end of rows of unequal
\* heights and gave the last row
C22_ClampedPastTheEnd ==
    /\ rangeCall.op = "getClampedRowAtPx"
    /\ dataLength >= 1
    /\ rangeCall.arg > GetTotal(rowHeights)
    /\ rangeCall.out = dataLength - 1
    /\ \E i, j \in DOMAIN rowHeights : rowHeights[i] # rowHeights[j]

\* ------------------------------------------------ claims: frame timer
\* C23: start() and stop() are idempotent, at most one animation-frame request
\* is pending at any time, stop() cancels the pending request, and once stop()
\* has returned the callback is not run again before start() is called, also
\* when stop() was called inside the callback.
C23_StoppedTimerStaysStopped ==
    /\ Start(Start(timer)) = Start(timer)
    /\ Stop(Stop(timer)) = Stop(timer)
    /\ Cardinality(timer.requests) <= 1
    /\ Stop(timer).requests = {}
    /\ timer.stopped => timer.requests = {}
    /\ ~timer.ranStopped

\* The last k elements of a sequence, all of them when it has fewer
LastOf(seq, k) ==
    SubSeq(seq, IF Len(seq) > k THEN Len(seq) - k + 1 ELSE 1, Len(seq))

\* C24: the averaged frame time of the timer is the mean of the last 5 frame
\* durations it measured, of all of them when it has measured fewer than 5.
C24_AverageOfLastFiveFrames ==
    timer.durations # <<>> =>
        RatEq(GetAverage(timer.samples), GetAverage(LastOf(timer.durations, 5)))

\* ------------------------------------------------ claims: load factor
\* The sample windows a timer can hold after frames of the durations above
SampleSeqs == UNION {[1..k -> FrameTimes] : k \in 1..(maxSamples - 1)}

\* (f - 25) / (50 - 25) held within [0, 0.95], for f = sum / n
RampOf(f) ==
    IF RatLE(f, Rat(25, 1)) THEN Rat(0, 1)
    ELSE IF RatLE(Rat(195, 4), f) THEN Rat(19, 20)
    ELSE Rat(f.num - 25 * f.den, 25 * f.den)

LoadFactorAsStated(evt, samples) ==
    LET f == GetAverage(samples)
    IN  /\ RatEq(evt.loadFactor, RampOf(f))
        /\ RatLE(Rat(0, 1), evt.loadFactor) /\ RatLE(evt.loadFactor, Rat(19, 20))
        /\ \A other \in SampleSeqs :
              /\ RatLE(GetAverage(other), f) =>
                    RatLE(GetLoadFactor(other), evt.loadFactor)
              /\ RatLE(f, GetAverage(other)) =>
                    RatLE(evt.loadFactor, GetLoadFactor(other))

\* C25: the load factor of every SchedulerEvent is (f - 25) / (50 - 25) for
\* the averaged frame duration f, held within [0, 0.95]: 0 for f <= 25 ms,
\* 0.95 for f >= 48.75 ms, non-decreasing in f; it is computed once, when
\* doBatched starts, and is the same for all of that doBatched.
C25_LoadFactorRampComputedOncePerDrain ==
    [][/\ phase' # "none" => LoadFactorAsStated(schedEvent', timer'.samples)
       /\ schedEvent' # schedEvent => (phase = "none" /\ phase' = "read")]_vars

\* A doBatched under a load factor strictly between 0 and 0.95
C25_DrainUnderPartialLoad ==
    /\ phase = "idle"
    /\ ~RatLE(schedEvent.loadFactor, Rat(0, 1))
    /\ ~RatLE(Rat(19, 20), schedEvent.loadFactor)

\* ------------------------------------------- claims: errors in a frame
\* C26: an error raised inside the frame tick callback does not unwind past
\* the tick: it is logged there, and the frame loop goes on, the next
\* animation frame being requested all the same.
C26_ErrorsStayInsideTheTick ==
    /\ ~timer.unwound
    /\ (timer.frames > 0 /\ ~timer.stopped) => timer.requests # {}

\* ---------------------------------------------- claims: before makeDom
\* C27: before makeDom has been called, onScroll, and with it reInit, onResize
\* and onDataChange, schedules no task and creates no block (the only tasks
\* are the doWork ones of the frames), while the viewport getter,
\* updateViewport and updateRowSize fail with the init-required error.
C27_NothingScheduledBeforeMakeDom ==
    ~dom =>
        /\ blocks = <<>>
        /\ readQueue = <<>>
        /\ writeQueue = <<>>
        /\ \A i \in 1..Len(idleWriteQueue) : idleWriteQueue[i].cont = "doWork"
        /\ rangeCall.op \in {"viewport", "updateViewport", "updateRowSize"} =>
              rangeCall.thrown = "LongScroll dom not initialized"

\* Frames have run without a dom, and updateViewport has just failed
C27_UpdateViewportFailedBeforeMakeDom ==
    /\ ~dom
    /\ timer.frames > 1
    /\ rangeCall.op = "updateViewport"
    /\ rangeCall.thrown = "LongScroll dom not initialized"

\* ------------------------------------------------ claims: preparing
\* The blocks not yet prepared, those holding the target row, and those a
\* step prepares
Unprepared == {i \in 1..Len(blocks) : ~blocks[i].prepared}

HoldingTargetRow ==
    IF hasTarget
    THEN {i \in 1..Len(blocks) : ContainsNum(blocks[i].range, targetRow)}
    ELSE {}

NewlyPrepared ==
    {i \in 1..Len(blocks) : ~blocks[i].prepared /\ blocks'[i].prepared}

Distance(i, j) == IF i >= j THEN i - j ELSE j - i

\* C28: when not skipped, doWork prepares exactly one block, an unprepared
\* block whose index is as near the block holding targetRow as that of any
\* unprepared block; it prepares nothing when targetRow lies in no block or
\* every block is prepared already.
C28_PreparesNearestUnpreparedBlock ==
    [][Resumes("doWork") =>
         /\ Len(blocks') = Len(blocks)
         /\ IF HoldingTargetRow = {} \/ Unprepared = {} \/ ~work'.ran
            THEN NewlyPrepared = {}
            ELSE \E i \in Unprepared :
                    /\ NewlyPrepared = {i}
                    /\ \A c \in HoldingTargetRow : \A j \in Unprepared :
                          Distance(i, c) <= Distance(j, c)]_vars

\* doWork has prepared the block after the one holding the target row, which
\* was prepared before, while the block before it waits as well
C28_PreparedNeighbourOfCentre ==
    /\ work.ran
    /\ \E c \in HoldingTargetRow :
          /\ c > 1
          /\ c < Len(blocks)
          /\ work.found = c + 1
          /\ blocks[c].prepared
          /\ blocks[c + 1].prepared
          /\ ~blocks[c - 1].prepared

\* C29: with an unprepared candidate block, doWork draws u of [0, 1) and
\* prepares nothing exactly when u <= evt.loadFactor; under a load factor of
\* 0 it prepares a block whatever u is.
C29_SkipsOnlyUnderLoad ==
    [][(Resumes("doWork") /\ HoldingTargetRow # {} /\ Unprepared # {}) =>
         /\ NewlyPrepared = {} <=> RatLE(work'.drawn, schedEvent.loadFactor)
         /\ RatEq(schedEvent.loadFactor, Rat(0, 1)) => NewlyPrepared # {}]_vars

\* The history as updateBlockTimes has it once the time of the prepare just
\* made is pushed and all but the last 5 entries are dropped
HistoryWithLast == LastOf(Append(lastTimes, work'.took), 5)

SlowOnes(times) == {k \in 1..Len(times) : times[k] > 12}

\* size less its fifth, rounded up, and no less than 5
ShrunkFrom(size) ==
    LET shrinkBy == CHOOSE d \in 0..size : 5 * d >= size /\ 5 * (d - 1) < size
    IN  IF size - shrinkBy < 5 THEN 5 ELSE size - shrinkBy

\* C30: a prepare duration enters the history only if the prepared block has
\* preferredBlockSize rows; the history holds at most 5 entries;
\* preferredBlockSize changes only when the history holds exactly 5 entries of
\* which at least 4 exceed 12 ms, it then shrinks by ceil(0.2 * size), not
\* below 5, and the history is emptied.
C30_TimesOfPreferredSizeOnly ==
    [][/\ lastTimes' # lastTimes =>
             /\ Resumes("doWork")
             /\ \E i \in NewlyPrepared : Height(blocks[i].range) = preferredBlockSize
       /\ Len(lastTimes') <= 5
       /\ preferredBlockSize' # preferredBlockSize =>
             /\ lastTimes' # lastTimes
             /\ Len(HistoryWithLast) = 5
             /\ Cardinality(SlowOnes(HistoryWithLast)) >= 4
             /\ preferredBlockSize' = ShrunkFrom(preferredBlockSize)
             /\ lastTimes' = <<>>]_vars

\* The block size has shrunk on the prepare just made, and a block of
\* another size than the preferred one has been prepared
C30_ShrunkWithOddBlockPrepared ==
    /\ work.ran
    /\ lastTimes = <<>>
    /\ preferredBlockSize < initialBlockSize
    /\ \E i \in 1..Len(blocks) :
          blocks[i].prepared /\ Height(blocks[i].range) > preferredBlockSize

\* ------------------------------------------------------------ the target
\* A data source of a thousand rows
LongLength == 1000

\* <<rowStart, getClampedRowAtPx(pixBuff.bot)>> of one updateViewport under a
\* long data source: the buffer region over the first two rows, over some
\* thirty rows a tenth of the way down, and over the last three rows
TargetRows(N) ==
    {<<0, 1>>, <<N \div 10, (13 * N) \div 100 - 1>>, <<N - 3, N - 1>>}

\* The frames the block set is followed through
TargetFrames == 3

\* The block set following the viewport over LongLength rows for a few
\* frames: scrolls, setTarget with targets of several heights, blocks
\* rendered as placeholders (doWork's coin flip fails)
NextTarget ==
    \/ MakeDom
    \/ OnScroll
    \/ (timer.frames < TargetFrames /\ FrameTick(16, "tick"))
    \/ ExecDone
    \/ BatchNext
    \/ \E rows \in TargetRows(dataLength) : UpdateViewportResume(rows, TRUE)
    \/ EnsureCoversResume
    \/ BlockAppendResume
    \/ RenderWriteResume
    \/ RenderReadResume(defaultRowHeight)
    \/ DoWorkResume(FALSE, 5)
    \/ CancelledResume

SpecTarget == InitWith({LongLength}) /\ [][NextTarget]_vars

\* ------------------------------------------------ claims: setTarget
\* The whole number nearest to n / 3
NearestToThird(n) == CHOOSE r \in ((n \div 3) - 1)..((n \div 3) + 1) :
                         3 * r - 1 <= n /\ n <= 3 * r + 1

\* The rows of [t, b) that are rows of [0, N): no row when they are apart
WithinData(t, b, N) ==
    IF t >= N \/ b <= 0 \/ t >= b THEN {}
    ELSE (IF t < 0 THEN 0 ELSE t)..((IF b > N THEN N ELSE b) - 1)

LeaveRows(N) ==
    IF N = 0 THEN ViewportRows(N)
    ELSE {<<0, 0>>, <<0, (2 * N) \div 5 - 1>>, <<(3 * N) \div 5, N - 1>>}

\* The block set following a viewport that moves by less than its height,
\* for a few frames, over MidLength rows that the host takes away and gives
\* back: blocks are freed at one end while others stay.  Blocks are rendered
\* as placeholders (doWork's coin flip fails)
NextLeave ==
    \/ MakeDom
    \/ OnScroll
    \/ \E n \in {0, MidLength} : OnDataChange(n)
    \/ (timer.frames < TargetFrames /\ FrameTick(16, "tick"))
    \/ ExecDone
    \/ BatchNext
    \/ \E rows \in LeaveRows(dataLength) : UpdateViewportResume(rows, TRUE)
    \/ EnsureCoversResume
    \/ BlockAppendResume
    \/ RenderWriteResume
    \/ RenderReadResume(defaultRowHeight)
    \/ DoWorkResume(FALSE, 5)
    \/ CancelledResume

SpecLeave == InitWith({MidLength}) /\ [][NextLeave]_vars

\* ------------------------------------------------ claims: freeing blocks
\* A range lies fully above or fully past the leave range, as the loops of
\* ensureCovers test it
FullyOutside(r, leave) == r.bot <= leave.top \/ r.top >= leave.bot

\* The blocks a step frees, by their place in the list before it: free()
\* disposes the div of each
FreedBy(log, bs) ==
    {i \in 1..Len(bs) :
        \E k \in 1..Len(log) : log[k].op = "domDispose" /\ log[k].id = bs[i].id}

\* Every block a step frees is freed by ensureCovers while it is the
\* frontmost block and lies at or above leaveRange.top, or the backmost and
\* at or past leaveRange.bot
FreesOnlyOutsideEnds ==
    LET freed == FreedBy(callLog', blocks)
    IN  freed # {} =>
          /\ Resumes("ensureCovers")
          /\ \A i \in freed :
                \/ /\ blocks[i].range.bot <= leaveRange.top
                   /\ \A m \in 1..(i - 1) : m \in freed
                \/ /\ blocks[i].range.top >= leaveRange.bot
                   /\ \A m \in (i + 1)..Len(blocks) : m \in freed

\* Nothing that calls ensureCovers is left to run: no updateViewport read and
\* no ensureCovers write is queued or about to resume
Settled ==
    /\ hasTarget
    /\ \A k \in 1..Len(readQueue) : readQueue[k].cont # "updateViewport"
    /\ \A k \in 1..Len(writeQueue) : writeQueue[k].cont # "ensureCovers"
    /\ \A k \in 1..Len(microtasks) :
           microtasks[k].cont \notin {"updateViewport", "ensureCovers"}

NoneOutside(bs, leave) ==
    \A k \in 1..Len(bs) : ~FullyOutside(bs[k].range, leave)

\* C32, as the specification states it: ensureCovers frees a block only if
\* it is the frontmost block with range.bot <= leaveRange.top or the backmost
\* block with range.top >= leaveRange.bot, and after a setTarget has settled
\* no live block lies fully outside leaveRange.
C32_NoBlockOutsideOnceSettled ==
    [][/\ FreesOnlyOutsideEnds
       /\ Settled' => NoneOutside(blocks', leaveRange')]_vars

\* C32, amended: ensureCovers frees a block only if it is the frontmost block
\* with range.bot <= leaveRange.top or the backmost block with range.top >=
\* leaveRange.bot; when the two free loops of an ensureCovers continuation
\* have run no live block lies fully outside leaveRange, and none does when
\* the continuation of a setTarget for the current target has finished.
C32_NoBlockOutsideOnceFreed ==
    [][/\ FreesOnlyOutsideEnds
       /\ (Resumes("ensureCovers") /\ ~DebugThrows(leaveRange, targetRange)) =>
             /\ NoneOutside(FreeBelow(FreeAbove(Popped, leaveRange, phase),
                                      leaveRange, phase).blocks, leaveRange)
             /\ Job.targR = targetRange => NoneOutside(blocks', leaveRange)]_vars

\* ensureCovers has just freed blocks at the front of the list and kept a
\* block that was there before, then added blocks after it
C32_FreedInFrontOfKeptBlock ==
    /\ phase = "write"
    /\ \E k \in 1..Len(callLog) : callLog[k].op = "domDispose"
    /\ Len(blocks) >= 2
    /\ blocks[1].attached
    /\ ~blocks[Len(blocks)].attached
    /\ NoneOutside(blocks, leaveRange)

\* ======================================================= doWork each frame
DoWorkIn(queue) == {i \in 1..Len(queue) : queue[i].cont = "doWork"}

\* The doWork continuations waiting in the microtask queue
DoWorkJobs ==
    {i \in 1..Len(microtasks) :
        microtasks[i].kind = "settle" /\ microtasks[i].cont = "doWork"}

DoWorkFulfilled == {k \in 1..Len(fulfilLog) : fulfilLog[k].task.cont = "doWork"}

\* While the read and write queues are drained, the idle-write queue holds
\* the one doWork task of the tick, behind every task that was there before
OneDoWorkQueued ==
    /\ DoWorkIn(readQueue) = {}
    /\ DoWorkIn(writeQueue) = {}
    /\ IF phase \in {"read", "write"}
       THEN /\ DoWorkFulfilled = {}
            /\ DoWorkJobs = {}
            /\ \E i \in 1..Len(idleWriteQueue) :
                  /\ DoWorkIn(idleWriteQueue) = {i}
                  /\ idleWriteQueue[i].state = "Pending"
                  /\ idleWriteQueue[i].owner = LongScrollOwner
                  /\ \A j \in 1..Len(idleWriteQueue) :
                        idleWriteQueue[j].born = "none" => j <= i
       ELSE DoWorkIn(idleWriteQueue) = {}

\* The idle phase fulfils the doWork task once, after the read and write
\* tasks of the frame and the idle-write tasks that were queued before the tick
DoWorkFulfilledLast ==
    phase = "idle" =>
        \E k \in 1..Len(fulfilLog) :
            /\ DoWorkFulfilled = {k}
            /\ fulfilLog[k].q = "idle"
            /\ \A j \in 1..Len(fulfilLog) :
                  (fulfilLog[j].q \in {"read", "write"} \/ fulfilLog[j].task.born = "none")
                      => j <= k

\* C33: each tick enqueues exactly one idle-write task for doWork and starts
\* a drain; the drain fulfils it once, in the idle phase, after every read and
\* write task of the frame and after the idle-write tasks enqueued before the
\* tick, and doWork runs once, under the SchedulerEvent of that drain
C33_DoWorkOncePerFrame ==
    [][/\ OneDoWorkQueued'
       /\ DoWorkFulfilledLast'
       /\ (phase = "none" /\ phase' = "read") =>
             /\ Len(idleWriteQueue') = Len(idleWriteQueue) + 1
             /\ DoWorkIn(idleWriteQueue') = {Len(idleWriteQueue')}
       /\ (phase = "write" /\ phase' = "idle") => Cardinality(DoWorkJobs') = 1
       /\ Resumes("doWork") =>
             /\ phase = "idle"
             /\ DoWorkJobs = {1}
             /\ DoWorkJobs' = {}
             /\ work'.ran = ShouldRun(work'.drawn, schedEvent.loadFactor)
       /\ (phase = "idle" /\ phase' = "none") => DoWorkJobs = {}
       /\ phase' = "none" => DoWorkJobs' = {}]_vars

\* doWork has run in a frame that fulfilled a read task, a write task and an
\* idle-write task queued before the tick
C33_DoWorkAfterReadWriteAndOlderIdle ==
    /\ phase = "idle"
    /\ DoWorkJobs = {}
    /\ work.ran
    /\ \E r, w, i, k \in 1..Len(fulfilLog) :
          /\ fulfilLog[r].q = "read"
          /\ fulfilLog[w].q = "write"
          /\ fulfilLog[i].q = "idle" /\ fulfilLog[i].task.cont = "renderWrite"
          /\ fulfilLog[k].task.cont = "doWork"
          /\ r < w /\ w < i /\ i < k

\* ======================================================= block positions
UpdatePosCalls(log, id) == {k \in 1..Len(log) : log[k].op = "updatePos" /\ log[k].id = id}

LastSetValue(log) ==
    IF SetValueCalls(log) = <<>> THEN 0
    ELSE CHOOSE k \in 1..Len(log) :
             /\ log[k].op = "setValue"
             /\ \A j \in (k + 1)..Len(log) : log[j].op # "setValue"

CallsOf(log, op, id) == {k \in 1..Len(log) : log[k].op = op /\ log[k].id = id}

\* The Block objects free() was called on, by the step that left log
FreedIds(log) == {log[k].id : k \in {j \in 1..Len(log) : log[j].op = "domDispose"}}

LiveIds(bs) == {bs[i].id : i \in 1..Len(bs)}

\* One free() of block b in log: each row of its range handed back once as a
\* placeholder and, when b was prepared and only then, once as a real row
FreedRowByRow(log, b) ==
    /\ Cardinality(CallsOf(log, "domDispose", b.id)) = 1
    /\ \A row \in Rows(b.range) :
          /\ Cardinality({k \in CallsOf(log, "freeDummyDom", b.id) : log[k].row = row}) = 1
          /\ Cardinality({k \in CallsOf(log, "freeDom", b.id) : log[k].row = row})
                = IF b.prepared THEN 1 ELSE 0
    /\ \A k \in CallsOf(log, "freeDummyDom", b.id) \cup CallsOf(log, "freeDom", b.id) :
          log[k].row \in Rows(b.range)

\* A block just constructed: nothing of it is in the document
JustMade(b) == ~b.prepared /\ ~b.attached /\ b.content = "none"

\* C35: free() hands back each row's placeholder once and each row's real
\* element once exactly when the block was prepared; it is called once, on a
\* block that was on the list and is taken off it for good (a block that
\* bears its id afterwards is a new object), and nothing else hands an
\* element back, so no element is handed back twice
C35_FreeOncePerBlockAndRow ==
    [][/\ FreedIds(callLog') \subseteq LiveIds(blocks)
       /\ \A i \in 1..Len(blocks) :
             blocks[i].id \in FreedIds(callLog') =>
                 /\ FreedRowByRow(callLog', blocks[i])
                 /\ \A j \in 1..Len(blocks') :
                       blocks'[j].id = blocks[i].id => JustMade(blocks'[j])
       /\ \A k \in 1..Len(callLog') :
             callLog'[k].op \in {"freeDummyDom", "freeDom"} =>
                 callLog'[k].id \in FreedIds(callLog')
       /\ \A i, j \in 1..Len(blocks') : blocks'[i].id = blocks'[j].id => i = j]_vars

\* A prepared block of several rows has been freed
C35_FreedPreparedBlock ==
    \E a \in FreedIds(callLog) :
        /\ Cardinality(CallsOf(callLog, "freeDom", a)) >= 2
        /\ Cardinality(CallsOf(callLog, "freeDummyDom", a))
              = Cardinality(CallsOf(callLog, "freeDom", a))

\* ======================================================= debug()
\* C36: whenever ensureCovers resumes after its write task, also one left
\* suspended by a setTarget whose target has been replaced since, leaveRange
\* contains targetRange, so debug() does not throw, whatever the data length
C36_LeaveContainsTargetOnResume ==
    Resumes("ensureCovers") => ~DebugThrows(leaveRange, targetRange)

\* ======================================================= task states
Queues == <<readQueue, writeQueue, idleWriteQueue>>

\* The queue after a step holds the tasks it held, each in the state it had
\* or cancelled from Pending, and behind them the tasks scheduled since
KeepsStates(before, after) ==
    /\ Len(after) >= Len(before)
    /\ \A i \in 1..Len(before) :
          /\ after[i].owner = before[i].owner
          /\ after[i].cont = before[i].cont
          /\ \/ after[i].state = before[i].state
             \/ before[i].state = "Pending" /\ after[i].state = "Rejected"
    /\ \A i \in (Len(before) + 1)..Len(after) : after[i].state = "Pending"

\* The queue was handed to executeTasks: the tasks run were its Pending ones
\* and it is left empty
Drained(before, after, q) ==
    /\ after = <<>>
    /\ phase' = q
    /\ \E n \in 0..Len(fulfilLog') :
          /\ n = Len(SelectSeq(before, LAMBDA t : t.state = "Pending"))
          /\ \A k \in (Len(fulfilLog') - n + 1)..Len(fulfilLog') :
                /\ fulfilLog'[k].q = q
                /\ fulfilLog'[k].task.state = "Pending"

PhaseNames == <<"read", "write", "idle">>

\* C37: a queued task is Pending or Rejected, never Fulfilled, so executeTasks
\* never meets a Fulfilled task; Task.run is invoked on Pending tasks only and
\* takes the task out of its queue, Task.cancel on Pending tasks only, and a
\* Rejected task stays Rejected
C37_TaskStatesAreTerminal ==
    [][/\ \A n \in 1..3 : \A i \in 1..Len(Queues[n]') :
             Queues[n]'[i].state \in {"Pending", "Rejected"}
       /\ \A n \in 1..3 :
             \/ KeepsStates(Queues[n], Queues[n]')
             \/ Drained(Queues[n], Queues[n]', PhaseNames[n])
       /\ \A k \in 1..Len(fulfilLog') : fulfilLog'[k].task.state = "Pending"
       /\ Len(SelectSeq(microtasks', LAMBDA j : j.kind = "settle" /\ ~j.ok))
             - Len(SelectSeq(microtasks, LAMBDA j : j.kind = "settle" /\ ~j.ok))
          <= Cardinality({<<n, i>> \in (1..3) \X (1..(Len(readQueue) + Len(writeQueue) + Len(idleWriteQueue))) :
                             /\ i <= Len(Queues[n]) /\ i <= Len(Queues[n]')
                             /\ Queues[n][i].state = "Pending"
                             /\ Queues[n]'[i].state = "Rejected"})]_vars

\* The idle-write queue held a cancelled render task beside a pending task
\* and has been drained: the pending one was run, the queue is empty
C37_DrainedPastCancelledTask ==
    /\ phase = "idle"
    /\ idleWriteQueue = <<>>
    /\ "renderWrite" \in swallowed
    /\ \E k \in 1..Len(fulfilLog) : fulfilLog[k].q = "idle"
    /\ \A k \in 1..Len(fulfilLog) : fulfilLog[k].task.cont # "renderWrite"

\* ======================================================= prepared once
\* The block of bs that is the Block object b of the state before: it bears
\* b's id and is not a block constructed since; 0 when b has been freed
SameBlock(bs, b) ==
    LET hits == {j \in 1..Len(bs) : bs[j].id = b.id /\ ~(JustMade(bs[j]) /\ ~JustMade(b))}
    IN  IF hits = {} THEN 0 ELSE CHOOSE j \in hits : TRUE

\* C38: prepare() is called only on a block that is not prepared, and a
\* prepared block stays prepared; measure() is called only on a prepared
\* block; a block that shows its real elements never shows its placeholders
\* again, whatever render was under way when it was prepared
C38_PreparedOnceRealStaysAttached ==
    [][/\ \A i \in 1..Len(blocks) :
             LET j == SameBlock(blocks', blocks[i])
             IN  j # 0 =>
                    /\ blocks[i].prepared => blocks'[j].prepared
                    /\ (~blocks[i].prepared /\ blocks'[j].prepared) =>
                           /\ Resumes("doWork")
                           /\ work'.ran
                           /\ work'.found = i
                    /\ blocks[i].content = "real" => blocks'[j].content = "real"
                    /\ blocks'[j].content = "real" => blocks'[j].prepared
       /\ (Resumes("doWork") /\ work'.ran /\ work'.found # 0) =>
             /\ ~blocks[work'.found].prepared
             /\ blocks'[work'.found].prepared
       /\ \A k \in 1..Len(callLog') :
             callLog'[k].op = "getBoundingClientRect" =>
                 \E i \in 1..Len(blocks) :
                     blocks[i].id = callLog'[k].id /\ blocks[i].prepared
       /\ (Resumes("renderWrite") /\ Job.isDummy) =>
             \A i \in 1..Len(blocks) :
                 blocks[i].id = Job.owner.id => blocks[i].content # "real"]_vars

\* A block was prepared while its placeholder render waited for its idle
\* write: the render that started earlier now resumes on the prepared block
C38_PlaceholderRenderOverPreparedBlock ==
    /\ Resumes("renderWrite")
    /\ Job.isDummy
    /\ \E i \in 1..Len(blocks) :
          /\ blocks[i].id = Job.owner.id
          /\ blocks[i].prepared
          /\ blocks[i].dirty

\* ======================================================= progress
\* The pipeline under a host that scrolls until the first target is set and
\* then leaves the pane alone: frames go on, doWork's coin flip falls either
\* way, the throttled render runs at once or from its trailing timer
NextLive ==
    \/ MakeDom
    \/ (~hasTarget /\ OnScroll)
    \/ Tick
    \/ ExecDone
    \/ BatchNext
    \/ RenderTimerFire
    \/ \E rows \in ViewportRows(dataLength) : \E now \in ThrottleNow :
           UpdateViewportResume(rows, now)
    \/ EnsureCoversResume
    \/ BlockAppendResume
    \/ RenderWriteResume
    \/ RenderReadResume(defaultRowHeight)
    \/ DoWorkResume(TRUE, 5)
    \/ DoWorkResume(FALSE, 5)
    \/ \E now \in ThrottleNow : PrepRender(now)
    \/ CancelledResume

\* requestAnimationFrame keeps calling tick, the engine runs the microtask
\* queue until it is empty, the throttle's timer fires, and
\* Math.random() > loadFactor succeeds again and again
FairLive ==
    /\ WF_vars(Tick)
    /\ []<>Idle
    /\ SF_vars(RenderTimerFire)
    /\ SF_vars(DoWorkResume(TRUE, 5))

SpecLive == InitPipeline /\ [][NextLive]_vars /\ FairLive

\* doWork can reach the blocks: a live block holds the target row
Reachable ==
    /\ hasTarget
    /\ \E i \in 1..Len(blocks) :
          ContainsNum(blocks[i].range, ClampNum(Range(0, dataLength), targetRow))

RealShown(b) == b.prepared /\ b.content = "real"

AllRealShown == \A i \in 1..Len(blocks) : RealShown(blocks[i])

\* C39: with frames ticking, the target at rest and the coin flip succeeding
\* again and again, every block that stays live and that doWork can reach is
\* in the end prepared and shows its real rows: from some moment on every
\* live block does, as long as one of them holds the target row
C39_ReachableBlocksGetRealRows == <>[](Reachable => AllRealShown)

\* Every block of a list of several shows its real rows
C39_AllBlocksShowRealRows ==
    /\ Reachable
    /\ Len(blocks) >= 2
    /\ AllRealShown

\* ======================================================= later phases
\* The phases of a doBatched call that come before the drain of queue q
EarlierPhases(q) ==
    CASE q = "read" -> {}
      [] q = "write" -> {"read"}
      [] q = "idle" -> {"read", "write"}

\* doBatched hands queue q to executeTasks
DrainOf(q) == phase # q /\ phase' = q

Fulfilled(log, q, t) == \E k \in 1..Len(log) : log[k].q = q /\ log[k].task = t

\* A task of any queue or a continuation still waits for ensureCovers
EnsureCoversWaits ==
    \/ \E n \in 1..3 : \E i \in 1..Len(Queues[n]) :
          Queues[n][i].cont = "ensureCovers" /\ Queues[n][i].state = "Pending"
    \/ \E i \in 1..Len(microtasks) :
          microtasks[i].kind = "settle" /\ microtasks[i].cont = "ensureCovers"

\* C40, as stated: every task that a continuation resumed in an earlier phase
\* of a doBatched call scheduled onto a later phase is fulfilled by that call
C40_LaterPhaseTaskFulfilledInSameCall ==
    [][\A q \in {"write", "idle"} :
          DrainOf(q) =>
              \A i \in 1..Len(QueueOf(World, q)) :
                  QueueOf(World, q)[i].born \in EarlierPhases(q) =>
                      Fulfilled(fulfilLog', q, QueueOf(World, q)[i])]_vars

\* C40, amended: such a task is fulfilled by that call unless cancelJobs has
\* rejected it before its phase; when the call ends none waits in the queue
\* of a later phase, and the ensureCovers that updateViewport's read
\* continuation scheduled has run, so the blocks cover the target set in the
\* read phase (unless ensureCovers used up its iterations or failed)
C40_LaterPhaseTaskRunsUnlessCancelled ==
    [][/\ \A q \in {"write", "idle"} :
             DrainOf(q) =>
                 \A i \in 1..Len(QueueOf(World, q)) :
                     QueueOf(World, q)[i].born \in EarlierPhases(q) =>
                         \/ Fulfilled(fulfilLog', q, QueueOf(World, q)[i])
                         \/ QueueOf(World, q)[i].state = "Rejected"
       /\ phase' = "none" =>
             /\ \A q \in {"write", "idle"} : \A i \in 1..Len(QueueOf(World, q)') :
                   QueueOf(World, q)'[i].born \notin EarlierPhases(q)
             /\ ~EnsureCoversWaits'
       /\ (phase = "idle" /\ phase' = "none"
             /\ \E k \in 1..Len(fulfilLog) : fulfilLog[k].task.cont = "updateViewport"
             /\ ~capHit /\ TargetInData /\ errors = {})
          => Covers(blocks', targetRange')]_vars

\* A call whose read phase set a target that no block covered has ended with
\* the blocks built in its write phase
C40_BlocksBuiltInTheFrameOfTheScroll ==
    /\ phase = "idle"
    /\ errors = {}
    /\ \E r, w \in 1..Len(fulfilLog) :
          /\ fulfilLog[r].task.cont = "updateViewport"
          /\ fulfilLog[w].task.cont = "ensureCovers"
          /\ fulfilLog[w].task.born = "read"
          /\ fulfilLog[w].task.targR = targetRange
    /\ Len(blocks) >= 2
    /\ Covers(blocks, targetRange)

====
